---- MODULE Spec2Model ----
(***************************************************************************)
(* Map-generation pipeline of the roguelike: the BuilderChain orchestrator, *)
(* the rooms-and-corridors chain, reachability culling and exit placement,  *)
(* the drunkard's-walk digger, the cellular automaton, the area-based start *)
(* and the WFC catalog and solver, each as a state machine translated from  *)
(* src/src/map_builder.                                                     *)
(***************************************************************************)
EXTENDS Integers, Sequences, FiniteSets, TLC

VARIABLES
    starter,      \* BuilderChain.starter: "None" or the initial stage
    builders,     \* BuilderChain.builders: the meta stages, in `with` order
    chain_pc,     \* "assembling", "built" or "panicked"
    applied,      \* stages that have run against BuilderChain.build_data, in order
    op,           \* the BuilderChain method being executed, with its argument
    map,          \* the Map being built: [width, height, tiles]
    start,        \* the start: << >> for None, <<[x, y]>> for a Position
    rooms,        \* BuildData.rooms: << >> for None, <<list of Rects>> for Some
    spawn_list,   \* sequence of spawn entries [idx, name]
    builder,      \* the generator that is running
    pc,           \* its position
    locals        \* the local variables of the function at pc

chain_vars == <<starter, builders, chain_pc, applied, op>>

build_vars == <<map, start, rooms, spawn_list, builder, pc, locals>>

vars == <<starter, builders, chain_pc, applied, op,
          map, start, rooms, spawn_list, builder, pc, locals>>

None == "None"

\* The state of the part of the program a specification leaves out.
NoMap == [width |-> 0, height |-> 0, tiles |-> << >>, blocked |-> << >>]

ChainIdle ==
    /\ starter = None
    /\ builders = << >>
    /\ chain_pc = "idle"
    /\ applied = << >>
    /\ op = [name |-> "idle", arg |-> None]

(***************************************************************************)
(* BuilderChain (mod.rs)                                                   *)
(***************************************************************************)

\* Longest list of meta stages a chain is assembled with.
MaxStages == 3

\* Implementations of InitialMapBuilder used by match_builder.
InitialStages == {"SimpleMapBuilder", "CellularAutomataBuilder"}

\* Implementations of MetaMapBuilder used by match_builder.
MetaStages == {"AreaStartingPosition", "CullUnreachable", "DistantExit"}

\* BuilderChain::new: no starter, no meta stages, a fresh BuildData.
ChainNew ==
    /\ starter = None
    /\ builders = << >>
    /\ chain_pc = "assembling"
    /\ applied = << >>
    /\ op = [name |-> "new", arg |-> None]

\* A defective start_with that overwrites the registered starter.
StartWithReplacing(s) ==
    /\ chain_pc = "assembling"
    /\ op' = [name |-> "start_with", arg |-> s]
    /\ starter' = s
    /\ UNCHANGED <<builders, applied, chain_pc>>
    /\ UNCHANGED build_vars

\* BuilderChain::start_with: sets the starter, panics when one is already set.
StartWith(s) ==
    /\ chain_pc = "assembling"
    /\ op' = [name |-> "start_with", arg |-> s]
    /\ IF starter = None
          THEN /\ starter' = s
               /\ UNCHANGED chain_pc
          ELSE /\ chain_pc' = "panicked"
               /\ UNCHANGED starter
    /\ UNCHANGED <<builders, applied>>
    /\ UNCHANGED build_vars

\* BuilderChain::with: pushes the meta stage at the end of builders.
With(s) ==
    /\ chain_pc = "assembling"
    /\ Len(builders) < MaxStages
    /\ op' = [name |-> "with", arg |-> s]
    /\ builders' = Append(builders, s)
    /\ UNCHANGED <<starter, applied, chain_pc>>
    /\ UNCHANGED build_vars

\* A defective loop that iterates the meta stages from the last to the first.
RECURSIVE RunMetaBuildersReversed(_, _)
RunMetaBuildersReversed(done, todo) ==
    IF todo = << >> THEN done
    ELSE RunMetaBuildersReversed(Append(done, todo[Len(todo)]),
                                 SubSeq(todo, 1, Len(todo) - 1))

\* The loop `for metabuilder in self.builders.iter_mut()` of build_map: each
\* stage's build_map is called on build_data, first to last.
RECURSIVE RunMetaBuilders(_, _)
RunMetaBuilders(done, todo) ==
    IF todo = << >> THEN done
    ELSE RunMetaBuilders(Append(done, Head(todo)), Tail(todo))

\* BuilderChain::build_map: panics without a starter, else runs the starter
\* and then the meta stages on build_data.
BuildMap ==
    /\ chain_pc = "assembling"
    /\ op' = [name |-> "build_map", arg |-> None]
    /\ IF starter = None
          THEN /\ chain_pc' = "panicked"
               /\ UNCHANGED applied
          ELSE /\ applied' = RunMetaBuilders(Append(applied, starter), builders)
               /\ chain_pc' = "built"
    /\ UNCHANGED <<starter, builders>>
    /\ UNCHANGED build_vars

InitChain ==
    /\ ChainNew
    /\ map = NoMap /\ start = << >> /\ rooms = << >> /\ spawn_list = << >>
    /\ builder = "chain" /\ pc = "idle" /\ locals = None

NextChain ==
    \/ \E s \in InitialStages : StartWith(s)
    \/ \E s \in MetaStages : With(s)
    \/ BuildMap

SpecChain == InitChain /\ [][NextChain]_vars

(***************************************************************************)
(* C1: when build_map has returned, the stages that ran against build_data *)
(* are the starter once, followed by every meta stage once, in the order   *)
(* of the `with` calls; nothing is skipped, repeated or reordered.         *)
(***************************************************************************)
C1_StagesRunOnceInOrder ==
    chain_pc = "built" =>
        /\ Len(applied) = 1 + Len(builders)
        /\ applied[1] = starter
        /\ \A i \in 1..Len(builders) : applied[i + 1] = builders[i]

C1_Witness ==
    /\ chain_pc = "built"
    /\ Len(builders) = 3
    /\ builders[1] # builders[2]
    /\ builders[2] = builders[3]

(***************************************************************************)
(* C2: a starter, once registered, is never replaced: a further            *)
(* start_with panics; and no stage runs while no starter is registered:    *)
(* build_map then panics and build_data stays as created.                  *)
(***************************************************************************)
C2_SingleStarterOrPanic ==
    [][ /\ (starter # None /\ op'.name = "start_with")
            => (chain_pc' = "panicked" /\ starter' = starter /\ applied' = applied)
        /\ (starter = None /\ op'.name = "build_map")
            => (chain_pc' = "panicked" /\ applied' = << >> /\ applied = << >>)
        /\ (applied' # << >> => (starter' # None /\ applied'[1] = starter'
                /\ \A i \in 2..Len(applied') : applied'[i] \notin InitialStages))
      ]_vars

C2_Witness ==
    /\ chain_pc = "panicked"
    /\ op.name = "start_with"
    /\ starter # None
    /\ starter # op.arg

(***************************************************************************)
(* Map (map.rs)                                                            *)
(***************************************************************************)

\* TileType
Wall == "Wall"

Floor == "Floor"

DownStairs == "DownStairs"

\* Map::new, for a map of w by h tiles (the game fixes MAPWIDTH x MAPHEIGHT):
\* every tile is Wall and nothing is blocked.
MapNew(w, h) ==
    [width |-> w, height |-> h,
     tiles |-> [i \in 0..(w * h - 1) |-> Wall],
     blocked |-> [i \in 0..(w * h - 1) |-> FALSE]]

\* Map::center
Center(m) == [x |-> m.width \div 2, y |-> m.height \div 2]

\* Map::in_bounds
InBounds(m, x, d_x, y, d_y) ==
    /\ x + d_x >= 1
    /\ x + d_x < m.width - 1
    /\ y + d_y >= 1
    /\ y + d_y < m.height - 1

\* Map::xy_idx
XyIdx(m, x, y) == (y * m.width) + x

\* The tile indices of a map.
Indices(m) == 0..(m.width * m.height - 1)

\* The column and the row of a tile index, as get_available_exits takes them.
IdxX(m, idx) == idx % m.width

IdxY(m, idx) == idx \div m.width

\* Map::is_exit_valid
IsExitValid(m, x, y) ==
    IF x < 1 \/ x > m.width - 1 \/ y < 1 \/ y > m.height - 1
    THEN FALSE
    ELSE ~m.blocked[XyIdx(m, x, y)]

\* Map::populate_blocked
PopulateBlocked(m) ==
    [m EXCEPT !.blocked = [i \in Indices(m) |-> m.tiles[i] = Wall]]

\* Step costs of get_available_exits, in hundredths: 1.0 and 1.45.
CardinalCost == 100

DiagonalCost == 145

\* Map::get_available_exits: the set of <<neighbour index, cost>>.
GetAvailableExits(m, idx) ==
    LET x == IdxX(m, idx)
        y == IdxY(m, idx)
        w == m.width
    IN  {e \in { <<x - 1, y, idx - 1, CardinalCost>>,
                 <<x + 1, y, idx + 1, CardinalCost>>,
                 <<x, y - 1, idx - w, CardinalCost>>,
                 <<x, y + 1, idx + w, CardinalCost>>,
                 <<x - 1, y - 1, (idx - w) - 1, DiagonalCost>>,
                 <<x + 1, y - 1, (idx - w) + 1, DiagonalCost>>,
                 <<x - 1, y + 1, (idx + w) - 1, DiagonalCost>>,
                 <<x + 1, y + 1, (idx + w) + 1, DiagonalCost>> } :
            IsExitValid(m, e[1], e[2])}

\* Map::count_floor_tiles
CountFloorTiles(m) == Cardinality({i \in Indices(m) : m.tiles[i] = Floor})

(***************************************************************************)
(* Reachability culling and exit placement (common.rs)                     *)
(***************************************************************************)

\* std::f32::MAX, the distance DijkstraMap leaves on a tile it never reaches.
F32_MAX == 2147483647

\* The depth limit handed to DijkstraMap, 200.0, in hundredths.
DijkstraMaxDepth == 20000

SetMin(S) == CHOOSE a \in S : \A b \in S : a <= b

\* One round of the flood on flood = [dist, frontier]: every tile takes the
\* least of its distance and of the distances offered through the exits of
\* the tiles in the frontier; an offer at or beyond the depth limit is
\* dropped.  The tiles that took an offer are the next frontier.
FloodRound(m, flood) ==
    LET dist == flood.dist
        offered == UNION {{<<e[3], dist[j] + e[4]>> : e \in GetAvailableExits(m, j)} :
                             j \in flood.frontier}
        kept == {o \in offered : o[2] < DijkstraMaxDepth /\ o[2] < dist[o[1]]}
        reached == {o[1] : o \in kept}
    IN  [dist |-> [i \in Indices(m) |->
                      IF i \in reached
                      THEN SetMin({o[2] : o \in {q \in kept : q[1] = i}})
                      ELSE dist[i]],
         frontier |-> reached]

\* The rounds of the flood, eight at a time, until they change no distance:
\* no tile has taken an offer and the frontier is empty.
RECURSIVE DijkstraFlood(_, _, _)
DijkstraFlood(m, dist, frontier) ==
    IF frontier = {} THEN dist
    ELSE LET r1 == FloodRound(m, [dist |-> dist, frontier |-> frontier])
             r2 == FloodRound(m, r1)
             r3 == FloodRound(m, r2)
             r4 == FloodRound(m, r3)
             r5 == FloodRound(m, r4)
             r6 == FloodRound(m, r5)
             r7 == FloodRound(m, r6)
             r8 == FloodRound(m, r7)
         IN  IF r8.dist = dist THEN dist ELSE DijkstraFlood(m, r8.dist, r8.frontier)

\* rltk::DijkstraMap::new(width, height, starts, map, 200.0): the start is at
\* distance 0, every tile reached through get_available_exits has its least
\* path cost, every other tile keeps f32::MAX.
DijkstraMap(m, start_idx) ==
    DijkstraFlood(m, [i \in Indices(m) |-> IF i = start_idx THEN 0 ELSE F32_MAX],
                  {start_idx})

\* The scan of remove_unreachable_areas_returning_most_distant over the tiles
\* in index order, from tile i on, as what it leaves in exit_tile.  The loop
\* replaces the candidate <<index, distance>> by every reachable Floor tile
\* strictly farther than it, so it ends with the first of the tiles at the
\* greatest distance among those farther than the candidate it began with,
\* or with that candidate when there is none.
ExitScan(m, dist, i, exit_tile) ==
    LET farther == {j \in i..(m.width * m.height - 1) :
                       m.tiles[j] = Floor /\ dist[j] # F32_MAX /\ dist[j] > exit_tile[2]}
        farthest == {j \in farther : \A k \in farther : dist[k] <= dist[j]}
    IN  IF farther = {}
        THEN exit_tile
        ELSE <<SetMin(farthest), dist[SetMin(farthest)]>>

\* A defective cull that leaves the unreachable Floor tiles in place.
CullTilesKeepingAll(m, dist) == m.tiles

\* A defective cull that also walls up the reachable Floor tiles lying at the
\* greatest finite distance from the start.
CullTilesTrimmingFarthest(m, dist) ==
    LET finite == {dist[j] : j \in {k \in Indices(m) : m.tiles[k] = Floor /\ dist[k] # F32_MAX}}
    IN  [i \in Indices(m) |->
            IF m.tiles[i] = Floor /\ (dist[i] = F32_MAX \/
                  (dist[i] > 0 /\ \A d \in finite : d <= dist[i]))
            THEN Wall ELSE m.tiles[i]]

\* The tiles after the scan: a Floor tile the flood never reached is Wall.
CullTiles(m, dist) ==
    [i \in Indices(m) |->
        IF m.tiles[i] = Floor /\ dist[i] = F32_MAX THEN Wall ELSE m.tiles[i]]

\* A defective variant whose scan replaces the candidate by a tile at least as
\* far as it (>= for >), so that it returns the last of the farthest tiles.
RemoveUnreachableAreasReturningLastMostDistant(m, start_idx) ==
    LET b == PopulateBlocked(m)
        dist == DijkstraMap(b, start_idx)
        far == {i \in Indices(b) : /\ b.tiles[i] = Floor /\ dist[i] # F32_MAX
                                   /\ \A j \in Indices(b) :
                                         (b.tiles[j] = Floor /\ dist[j] # F32_MAX)
                                             => dist[j] <= dist[i]}
    IN  [map |-> [b EXCEPT !.tiles = CullTiles(b, dist)],
         exit_tile |-> IF far = {} THEN 0
                       ELSE CHOOSE i \in far : \A j \in far : j <= i]

\* remove_unreachable_areas_returning_most_distant: the map after the call and
\* the index it returns. The candidate starts as (0, 0.0).
RemoveUnreachableAreasReturningMostDistant(m, start_idx) ==
    LET b == PopulateBlocked(m)
        dist == DijkstraMap(b, start_idx)
    IN  [map |-> [b EXCEPT !.tiles = CullTiles(b, dist)],
         exit_tile |-> ExitScan(b, dist, 0, <<0, 0>>)[1]]

\* The exit placement every caller does with the returned index:
\* map.tiles[exit_tile] = TileType::DownStairs.
PlaceExit(m, exit_tile) == [m EXCEPT !.tiles[exit_tile] = DownStairs]

(***************************************************************************)
(* Culling and exit placement on its own: any interior layout of Floor and *)
(* Wall, any interior start tile.                                          *)
(***************************************************************************)

\* Size of the maps the culling is run on.
CullWidth == 5

CullHeight == 4

Interior(m) ==
    {i \in Indices(m) : /\ IdxX(m, i) >= 1 /\ IdxX(m, i) <= m.width - 2
                        /\ IdxY(m, i) >= 1 /\ IdxY(m, i) <= m.height - 2}

InitCull ==
    /\ ChainIdle
    /\ \E floors \in SUBSET Interior(MapNew(CullWidth, CullHeight)) :
          map = [MapNew(CullWidth, CullHeight) EXCEPT
                    !.tiles = [i \in Indices(MapNew(CullWidth, CullHeight)) |->
                                  IF i \in floors THEN Floor ELSE Wall]]
    /\ \E i \in Interior(MapNew(CullWidth, CullHeight)) :
          start = <<[x |-> i % CullWidth, y |-> i \div CullWidth]>>
    /\ rooms = << >>
    /\ spawn_list = << >>
    /\ builder = "cull"
    /\ pc = "cull"
    /\ locals = [exit_tile |-> None]

\* let exit_tile = remove_unreachable_areas_returning_most_distant(map, start_idx)
CullUnreachableAreas ==
    /\ builder = "cull"
    /\ pc = "cull"
    /\ LET r == RemoveUnreachableAreasReturningMostDistant(map, XyIdx(map, start[1].x, start[1].y))
       IN  /\ map' = r.map
           /\ locals' = [exit_tile |-> r.exit_tile]
    /\ pc' = "place_exit"
    /\ UNCHANGED <<start, rooms, spawn_list, builder>>
    /\ UNCHANGED chain_vars

\* map.tiles[exit_tile] = TileType::DownStairs
PlaceExitTile ==
    /\ builder = "cull"
    /\ pc = "place_exit"
    /\ map' = PlaceExit(map, locals.exit_tile)
    /\ pc' = "done"
    /\ UNCHANGED <<start, rooms, spawn_list, builder, locals>>
    /\ UNCHANGED chain_vars

NextCull ==
    \/ CullUnreachableAreas
    \/ PlaceExitTile

SpecCull == InitCull /\ [][NextCull]_vars

\* The flood distances of the map as it is now, from the start.
FloodFromStart == DijkstraMap(PopulateBlocked(map), XyIdx(map, start[1].x, start[1].y))

(***************************************************************************)
(* C3: after culling and exit placement from a start tile, every tile that *)
(* is still Floor has a finite flood distance from the start, and the tile *)
(* turned into DownStairs is at least as far as every remaining Floor tile.*)
(***************************************************************************)
C3_FloorsReachableExitFarthest ==
    (builder = "cull" /\ pc = "done") =>
        LET dist == FloodFromStart
        IN  /\ \A i \in Indices(map) : map.tiles[i] = Floor => dist[i] # F32_MAX
            /\ map.tiles[locals.exit_tile] = DownStairs
            /\ \A i \in Indices(map) :
                  map.tiles[i] = Floor => dist[locals.exit_tile] >= dist[i]

C3_Witness ==
    /\ builder = "cull"
    /\ pc = "done"
    /\ Cardinality({i \in Indices(map) : map.tiles[i] = Floor}) >= 2
    /\ FloodFromStart[locals.exit_tile] >= CardinalCost + DiagonalCost
    /\ FloodFromStart[locals.exit_tile] # F32_MAX

\* Culling and exit placement are over and a Floor tile is left that the
\* flood reaches (the exit itself is DownStairs by now).
CulledWithReachableFloor ==
    /\ builder = "cull"
    /\ pc = "done"
    /\ \E i \in Indices(map) : map.tiles[i] = Floor /\ FloodFromStart[i] # F32_MAX

C15_ExitOnReachableFloor ==
    (builder = "cull" /\ pc = "place_exit") =>
        /\ map.tiles[locals.exit_tile] = Floor
        /\ FloodFromStart[locals.exit_tile] # F32_MAX
        /\ locals.exit_tile \in Interior(map)

\* The cull has returned an index for a start that is a Floor tile with no
\* other Floor tile in reach.
C15_Witness ==
    /\ builder = "cull"
    /\ pc = "place_exit"
    /\ map.tiles[XyIdx(map, start[1].x, start[1].y)] = Floor
    /\ \A i \in Indices(map) :
          map.tiles[i] = Floor => i = XyIdx(map, start[1].x, start[1].y)

(***************************************************************************)
(* The cull applied twice in a row from the same start, with nothing in    *)
(* between: the tile grid is recorded before the first call and after each *)
(* of the two calls.                                                       *)
(***************************************************************************)

InitRecull ==
    /\ ChainIdle
    /\ \E floors \in SUBSET Interior(MapNew(CullWidth, CullHeight)) :
          map = [MapNew(CullWidth, CullHeight) EXCEPT
                    !.tiles = [i \in Indices(MapNew(CullWidth, CullHeight)) |->
                                  IF i \in floors THEN Floor ELSE Wall]]
    /\ \E i \in Interior(MapNew(CullWidth, CullHeight)) :
          start = <<[x |-> i % CullWidth, y |-> i \div CullWidth]>>
    /\ rooms = << >>
    /\ spawn_list = << >>
    /\ builder = "recull"
    /\ pc = "cull"
    /\ locals = [before |-> map.tiles, once |-> None, exit_tile |-> None]

\* The first remove_unreachable_areas_returning_most_distant(map, start_idx).
RecullFirst ==
    /\ builder = "recull"
    /\ pc = "cull"
    /\ LET r == RemoveUnreachableAreasReturningMostDistant(map, XyIdx(map, start[1].x, start[1].y))
       IN  /\ map' = r.map
           /\ locals' = [locals EXCEPT !.once = <<r.map.tiles>>, !.exit_tile = r.exit_tile]
    /\ pc' = "cull_again"
    /\ UNCHANGED <<start, rooms, spawn_list, builder>>
    /\ UNCHANGED chain_vars

\* The same call once more, on the map the first call left.
RecullSecond ==
    /\ builder = "recull"
    /\ pc = "cull_again"
    /\ LET r == RemoveUnreachableAreasReturningMostDistant(map, XyIdx(map, start[1].x, start[1].y))
       IN  /\ map' = r.map
           /\ locals' = [locals EXCEPT !.exit_tile = r.exit_tile]
    /\ pc' = "culled_twice"
    /\ UNCHANGED <<start, rooms, spawn_list, builder>>
    /\ UNCHANGED chain_vars

NextRecull ==
    \/ RecullFirst
    \/ RecullSecond

SpecRecull == InitRecull /\ [][NextRecull]_vars

(***************************************************************************)
(* C12: culling is idempotent. For every map and start tile, the tile grid *)
(* after two culls in a row from the same start is the tile grid after one.*)
(***************************************************************************)
C12_CullIdempotent ==
    (builder = "recull" /\ pc = "culled_twice") => map.tiles = locals.once[1]

\* A second cull has run on a map from which the first one removed a Floor
\* tile and kept another.
C12_Witness ==
    /\ builder = "recull"
    /\ pc = "culled_twice"
    /\ \E i \in Indices(map) : locals.before[i] = Floor /\ locals.once[1][i] = Wall
    /\ \E i \in Indices(map) : locals.before[i] = Floor /\ map.tiles[i] = Floor

(***************************************************************************)
(* Rooms and corridors (simple_map.rs, common.rs, room_based_gen.rs,       *)
(* spawner.rs)                                                             *)
(***************************************************************************)

\* Rect::new(x, y, w, h)
RectNew(x, y, w, h) == [x1 |-> x, y1 |-> y, x2 |-> x + w, y2 |-> y + h]

\* Rect::center
RectCenter(r) == [x |-> (r.x1 + r.x2) \div 2, y |-> (r.y1 + r.y2) \div 2]

\* Rect::intersect
RectIntersect(r, o) == r.x1 <= o.x2 /\ r.x2 >= o.x1 /\ r.y1 <= o.y2 /\ r.y2 >= o.y1

Min(a, b) == IF a < b THEN a ELSE b

Max(a, b) == IF a > b THEN a ELSE b

Abs(a) == IF a < 0 THEN -a ELSE a

\* apply_room_to_map: Floor on x1+1..=x2 by y1+1..=y2.
ApplyRoomToMap(m, room) ==
    [m EXCEPT !.tiles =
        [i \in Indices(m) |->
            IF \E y \in (room.y1 + 1)..room.y2, x \in (room.x1 + 1)..room.x2 : XyIdx(m, x, y) = i
            THEN Floor ELSE m.tiles[i]]]

\* apply_horizontal_tunnel
ApplyHorizontalTunnel(m, x1, x2, y) ==
    [m EXCEPT !.tiles =
        [i \in Indices(m) |->
            IF \E x \in Min(x1, x2)..Max(x1, x2) :
                  XyIdx(m, x, y) = i /\ i > 0 /\ i < m.width * m.height
            THEN Floor ELSE m.tiles[i]]]

\* A defective vertical tunnel that hands xy_idx its arguments swapped.
ApplyVerticalTunnelSwapped(m, y1, y2, x) ==
    [m EXCEPT !.tiles =
        [i \in Indices(m) |->
            IF \E y \in Min(y1, y2)..Max(y1, y2) :
                  XyIdx(m, y, x) = i /\ i > 0 /\ i < m.width * m.height
            THEN Floor ELSE m.tiles[i]]]

\* apply_vertical_tunnel
ApplyVerticalTunnel(m, y1, y2, x) ==
    [m EXCEPT !.tiles =
        [i \in Indices(m) |->
            IF \E y \in Min(y1, y2)..Max(y1, y2) :
                  XyIdx(m, x, y) = i /\ i > 0 /\ i < m.width * m.height
            THEN Floor ELSE m.tiles[i]]]

\* Size of the map the rooms chain runs on.
RoomsWidth == 8

RoomsHeight == 7

\* rooms_and_corridors: the number of placement attempts and the room sizes
\* drawn by rng.range(MIN_SIZE, MAX_SIZE), which excludes MAX_SIZE.
MAX_ROOMS == 2

MIN_SIZE == 2

MAX_SIZE == 3

\* spawn_room: the most monsters rolled for one room.
MAX_MONSTERS == 2

\* BuilderChain::new followed by start_with(SimpleMapBuilder): a fresh
\* BuildData, with the local `rooms` of rooms_and_corridors still empty.
RoomsChainNew ==
    /\ map = MapNew(RoomsWidth, RoomsHeight)
    /\ start = << >>
    /\ rooms = << >>
    /\ spawn_list = << >>
    /\ builder = "rooms"
    /\ pc = "rooms_and_corridors"
    /\ locals = [rooms |-> << >>, n |-> 0]

\* The two corridors of one accepted room, by the coin rng.range(0, 2).
Corridors(m, prev, new, coin) ==
    IF coin = 1
    THEN ApplyVerticalTunnel(ApplyHorizontalTunnel(m, prev.x, new.x, prev.y),
                             prev.y, new.y, new.x)
    ELSE ApplyHorizontalTunnel(ApplyVerticalTunnel(m, prev.y, new.y, prev.x),
                               prev.x, new.x, new.y)

\* One pass of the loop `for _ in 0..MAX_ROOMS` of rooms_and_corridors; the
\* pass after which the loop ends also stores build_data.rooms = Some(rooms).
RoomsAndCorridors ==
    /\ builder = "rooms"
    /\ pc = "rooms_and_corridors"
    /\ \E w \in MIN_SIZE..(MAX_SIZE - 1), h \in MIN_SIZE..(MAX_SIZE - 1), coin \in 0..1 :
       \E x \in 0..(map.width - w - 2), y \in 0..(map.height - h - 2) :
          LET new_room == RectNew(x, y, w, h)
              ok == \A i \in 1..Len(locals.rooms) : ~RectIntersect(new_room, locals.rooms[i])
              carved == ApplyRoomToMap(map, new_room)
              new_rooms == IF ok THEN Append(locals.rooms, new_room) ELSE locals.rooms
          IN  /\ map' = IF ~ok THEN map
                        ELSE IF locals.rooms = << >> THEN carved
                        ELSE Corridors(carved, RectCenter(locals.rooms[Len(locals.rooms)]),
                                       RectCenter(new_room), coin)
              /\ IF locals.n + 1 = MAX_ROOMS
                 THEN /\ rooms' = <<new_rooms>>
                      /\ locals' = [room |-> 2]
                      /\ pc' = "spawner"
                 ELSE /\ locals' = [rooms |-> new_rooms, n |-> locals.n + 1]
                      /\ UNCHANGED <<rooms, pc>>
    /\ UNCHANGED <<start, spawn_list, builder>>
    /\ UNCHANGED chain_vars

\* The spawn points spawn_room can draw in a room: x1 + roll(1, |x2 - x1|),
\* y1 + roll(1, |y2 - y1|), as the index y * MAPWIDTH + x.
SpawnPoints(m, room) ==
    {(y * m.width) + x : x \in (room.x1 + 1)..(room.x1 + Abs(room.x2 - room.x1)),
                         y \in (room.y1 + 1)..(room.y1 + Abs(room.y2 - room.y1))}

\* The names random_monster gives.
MonsterNames == {"Orc", "Goblin"}

\* spawn_room: the spawn lists it can leave. Between 1 and MAX_MONSTERS spawn
\* points of the room are drawn, a point already drawn for the room is drawn
\* again, and a monster is recorded at each.
SpawnRoom(m, room, list) ==
    UNION {{list \o picks : picks \in
                {p \in [1..num_monsters -> [idx : SpawnPoints(m, room), name : MonsterNames]] :
                    \A i, j \in 1..num_monsters : i # j => p[i].idx # p[j].idx}} :
           num_monsters \in 1..MAX_MONSTERS}

\* RoomBasedSpawner::build, one room of `rooms.iter().skip(1)` per step; it
\* panics when build_data.rooms is None.
RoomBasedSpawner ==
    /\ builder = "rooms"
    /\ pc = "spawner"
    /\ IF rooms = << >>
       THEN /\ pc' = "panicked"
            /\ UNCHANGED <<spawn_list, locals>>
       ELSE IF locals.room > Len(rooms[1])
       THEN /\ pc' = "starting_position"
            /\ UNCHANGED <<spawn_list, locals>>
       ELSE /\ spawn_list' \in SpawnRoom(map, rooms[1][locals.room], spawn_list)
            /\ locals' = [room |-> locals.room + 1]
            /\ UNCHANGED pc
    /\ UNCHANGED <<map, start, rooms, builder>>
    /\ UNCHANGED chain_vars

\* A defective stage that falls back on the centre of the map when
\* build_data.rooms is None.
RoomBasedStartingPositionLenient ==
    /\ builder = "rooms"
    /\ pc = "starting_position"
    /\ start' = IF rooms = << >> THEN <<Center(map)>> ELSE <<RectCenter(rooms[1][1])>>
    /\ pc' = "stairs"
    /\ UNCHANGED <<map, rooms, spawn_list, builder, locals>>
    /\ UNCHANGED chain_vars

\* RoomBasedStartingPosition::build; it panics when build_data.rooms is None.
RoomBasedStartingPosition ==
    /\ builder = "rooms"
    /\ pc = "starting_position"
    /\ IF rooms = << >>
       THEN /\ pc' = "panicked"
            /\ UNCHANGED start
       ELSE /\ start' = <<RectCenter(rooms[1][1])>>
            /\ pc' = "stairs"
    /\ UNCHANGED <<map, rooms, spawn_list, builder, locals>>
    /\ UNCHANGED chain_vars

\* RoomBasedStairs::build; it panics when build_data.rooms is None.
RoomBasedStairs ==
    /\ builder = "rooms"
    /\ pc = "stairs"
    /\ IF rooms = << >>
       THEN /\ pc' = "panicked"
            /\ UNCHANGED map
       ELSE /\ LET stairs == RectCenter(rooms[1][Len(rooms[1])])
               IN  map' = [map EXCEPT !.tiles[XyIdx(map, stairs.x, stairs.y)] = DownStairs]
            /\ pc' = "done"
    /\ UNCHANGED <<start, rooms, spawn_list, builder, locals>>
    /\ UNCHANGED chain_vars

\* A chain whose initial stage left build_data.rooms at None, about to run
\* one of the room-based stages: any cave on the map, the start unset or set
\* by an earlier stage, the spawn list empty or not.
InitRoomless ==
    /\ ChainIdle
    /\ \E floors \in SUBSET Interior(MapNew(CullWidth, CullHeight)) :
          map = [MapNew(CullWidth, CullHeight) EXCEPT !.tiles =
                    [i \in Indices(MapNew(CullWidth, CullHeight)) |->
                        IF i \in floors THEN Floor ELSE Wall]]
    /\ start \in {<< >>} \cup {<<[x |-> 1, y |-> 1]>>, <<Center(MapNew(CullWidth, CullHeight))>>}
    /\ rooms = << >>
    /\ spawn_list \in {<< >>, <<[idx |-> XyIdx(MapNew(CullWidth, CullHeight), 1, 1), name |-> "Orc"]>>}
    /\ builder = "rooms"
    /\ pc \in {"spawner", "starting_position", "stairs"}
    /\ locals = [room |-> 2]

NextRoomless ==
    \/ RoomBasedSpawner
    \/ RoomBasedStartingPosition
    \/ RoomBasedStairs

SpecRoomless == InitRoomless /\ [][NextRoomless]_vars

(***************************************************************************)
(* C11: a room-based stage that runs while build_data.rooms is None aborts *)
(* the run and leaves the map, the start and the spawn list as they were.  *)
(***************************************************************************)
C11_RoomlessStagesAbort ==
    [][(builder = "rooms" /\ rooms = << >>
            /\ pc \in {"spawner", "starting_position", "stairs"})
        => (pc' = "panicked" /\ map' = map /\ start' = start
                /\ spawn_list' = spawn_list)]_vars

\* An aborted run on a cave with Floor tiles, a start and a spawn entry.
C11_Witness ==
    /\ builder = "rooms"
    /\ rooms = << >>
    /\ pc = "panicked"
    /\ CountFloorTiles(map) > 0
    /\ start # << >>
    /\ spawn_list # << >>

(***************************************************************************)
(* Diggers and the drunkard's walk (common.rs, drunkard.rs)                *)
(***************************************************************************)

\* apply_paint: the tiles the brush covers at (x, y).
ApplyPaint(m, brush_size, x, y) ==
    IF brush_size = 1
    THEN [m EXCEPT !.tiles[XyIdx(m, x, y)] = Floor]
    ELSE LET half_brush == brush_size \div 2
         IN  [m EXCEPT !.tiles =
                [i \in Indices(m) |->
                    IF \E brush_y \in (y - half_brush)..(y + half_brush - 1),
                          brush_x \in (x - half_brush)..(x + half_brush - 1) :
                          /\ InBounds(m, brush_x, 0, brush_y, 0)
                          /\ XyIdx(m, brush_x, brush_y) = i
                    THEN Floor ELSE m.tiles[i]]]

\* paint: the tile itself, then the brush by the symmetry mode.
Paint(m, mode, brush_size, x, y) ==
    LET center == Center(m)
        own == [m EXCEPT !.tiles[XyIdx(m, x, y)] = Floor]
        d_x == Abs(center.x - x)
        d_y == Abs(center.y - y)
    IN  CASE mode = "None" -> ApplyPaint(own, brush_size, x, y)
          [] mode = "Horizontal" ->
                IF x = center.x THEN ApplyPaint(own, brush_size, x, y)
                ELSE ApplyPaint(ApplyPaint(own, brush_size, center.x + d_x, y),
                                brush_size, center.x - d_x, y)
          [] mode = "Vertical" ->
                IF y = center.y THEN ApplyPaint(own, brush_size, x, y)
                ELSE ApplyPaint(ApplyPaint(own, brush_size, x, center.y + d_y),
                                brush_size, x, center.y + d_y)
          [] mode = "Both" ->
                IF x = center.x /\ y = center.y THEN ApplyPaint(own, brush_size, x, y)
                ELSE ApplyPaint(ApplyPaint(ApplyPaint(ApplyPaint(own,
                        brush_size, center.x + d_x, y),
                        brush_size, center.x - d_x, y),
                        brush_size, x, center.y + d_y),
                        brush_size, x, center.y - d_y)

\* Digger::stagger_direction: the position after the roll of rng.roll_dice(1, 4).
StaggerDirection(m, x, y, roll) ==
    CASE roll = 1 -> [x |-> IF x > 2 THEN x - 1 ELSE x, y |-> y]
      [] roll = 2 -> [x |-> IF x < m.width - 2 THEN x + 1 ELSE x, y |-> y]
      [] roll = 3 -> [x |-> x, y |-> IF y > 2 THEN y - 1 ELSE y]
      [] OTHER -> [x |-> x, y |-> IF y < m.height - 2 THEN y + 1 ELSE y]

\* Size of the map the drunkard's walk runs on.
DrunkWidth == 6

DrunkHeight == 7

\* DrunkardSettings.lifespan and floor_percent (in percent), scaled to the map.
DrunkLifespan == 2

DrunkFloorPercent == 10

\* The most diggers one build goes through.
MaxDiggers == 2

\* The settings of open_area / open_halls / winding_passages, fat_passages and
\* fearful_symmetry.
DrunkardSettings ==
    {[spawn_mode |-> "StartingPoint", brush_size |-> 1, symmetry |-> "None"],
     [spawn_mode |-> "Random", brush_size |-> 1, symmetry |-> "None"],
     [spawn_mode |-> "Random", brush_size |-> 2, symmetry |-> "None"],
     [spawn_mode |-> "Random", brush_size |-> 1, symmetry |-> "Both"]}

\* DrunkardsWalkBuilder::new with one of the settings.
DrunkardsWalkBuilderNew ==
    /\ map = MapNew(DrunkWidth, DrunkHeight)
    /\ start = <<[x |-> 0, y |-> 0]>>
    /\ rooms = << >>
    /\ spawn_list = << >>
    /\ builder = "drunkard"
    /\ pc = "build"
    /\ \E settings \in DrunkardSettings : locals = [settings |-> settings]

\* The condition of the loop of build: floor_tile_count < desired_floor_tiles.
DrunkMoreFloorWanted(m) ==
    CountFloorTiles(m) < (DrunkFloorPercent * (m.width * m.height)) \div 100

\* build up to its loop: the start is the centre of the map and its tile Floor.
DrunkBuildStart ==
    /\ builder = "drunkard"
    /\ pc = "build"
    /\ start' = <<Center(map)>>
    /\ map' = [map EXCEPT !.tiles[XyIdx(map, Center(map).x, Center(map).y)] = Floor]
    /\ locals' = [settings |-> locals.settings, digger_count |-> 0]
    /\ pc' = "loop"
    /\ UNCHANGED <<rooms, spawn_list, builder>>
    /\ UNCHANGED chain_vars

\* The head of the loop of build: a new digger at the start or at a random
\* place, or the end of the digging.
DrunkSpawnDigger ==
    /\ builder = "drunkard"
    /\ pc = "loop"
    /\ IF DrunkMoreFloorWanted(map)
       THEN /\ locals.digger_count < MaxDiggers
            /\ \E rx \in 2..(map.width - 2), ry \in 2..(map.height - 2) :
                  LET at_start == \/ locals.settings.spawn_mode = "StartingPoint"
                                  \/ locals.digger_count = 0
                      drunk_x == IF at_start THEN start[1].x ELSE rx
                      drunk_y == IF at_start THEN start[1].y ELSE ry
                  IN  locals' = [settings |-> locals.settings,
                                 digger_count |-> locals.digger_count,
                                 drunk |-> [x |-> drunk_x, y |-> drunk_y,
                                            did_something |-> FALSE,
                                            lifespan |-> DrunkLifespan]]
            /\ pc' = "stagger"
       ELSE /\ pc' = "locate_exit"
            /\ locals' = [settings |-> locals.settings, digger_count |-> locals.digger_count]
    /\ UNCHANGED <<map, start, rooms, spawn_list, builder>>
    /\ UNCHANGED chain_vars

\* stagger: map.tiles[self.idx] = TileType::DownStairs, the marker of a dug tile.
MarkDug(m, idx) == [m EXCEPT !.tiles[idx] = DownStairs]

\* DrunkDigger::stagger, one pass of `while self.settings.lifespan > 0`.
DrunkStagger ==
    /\ builder = "drunkard"
    /\ pc = "stagger"
    /\ locals.drunk.lifespan > 0
    /\ \E roll \in 1..4 :
          LET drunk == locals.drunk
              idx == XyIdx(map, drunk.x, drunk.y)
              next == StaggerDirection(map, drunk.x, drunk.y, roll)
          IN  /\ map' = MarkDug(Paint(map, locals.settings.symmetry,
                                      locals.settings.brush_size, drunk.x, drunk.y), idx)
              /\ locals' = [locals EXCEPT !.drunk =
                              [x |-> next.x, y |-> next.y,
                               did_something |-> drunk.did_something \/ map.tiles[idx] = Wall,
                               lifespan |-> drunk.lifespan - 1]]
    /\ UNCHANGED <<start, rooms, spawn_list, builder, pc>>
    /\ UNCHANGED chain_vars

\* A defective sweep that leaves the markers on the map.
MarkersToFloorSkipped(m) == m

\* The sweep of build after a digger: every DownStairs marker becomes Floor.
MarkersToFloor(m) ==
    [m EXCEPT !.tiles = [i \in Indices(m) |->
                            IF m.tiles[i] = DownStairs THEN Floor ELSE m.tiles[i]]]

\* The rest of the loop body of build once the digger's life has expired.
DrunkSettle ==
    /\ builder = "drunkard"
    /\ pc = "stagger"
    /\ locals.drunk.lifespan = 0
    /\ map' = MarkersToFloor(map)
    /\ locals' = [settings |-> locals.settings, digger_count |-> locals.digger_count + 1]
    /\ pc' = "loop"
    /\ UNCHANGED <<start, rooms, spawn_list, builder>>
    /\ UNCHANGED chain_vars

\* The end of build: the cull from the start and the exit on the returned tile.
DrunkLocateExit ==
    /\ builder = "drunkard"
    /\ pc = "locate_exit"
    /\ LET r == RemoveUnreachableAreasReturningMostDistant(map, XyIdx(map, start[1].x, start[1].y))
       IN  /\ map' = PlaceExit(r.map, r.exit_tile)
           /\ locals' = [settings |-> locals.settings, exit_tile |-> r.exit_tile]
    /\ pc' = "done"
    /\ UNCHANGED <<start, rooms, spawn_list, builder>>
    /\ UNCHANGED chain_vars

(***************************************************************************)
(* Cellular automata (cellular_automata.rs)                                *)
(***************************************************************************)

\* Size of the map the cellular automaton runs on.
CaWidth == 9

CaHeight == 9

\* The number of passes of the rule: `for _ in 0..15`.
CaPasses == 15

\* The random fills the model draws: one fill, given by its Floor cells
\* <<x, y>>, and every change of it on the cells of CaSeedFree.
CaSeedFloors ==
    {<<3, 1>>, <<4, 1>>, <<6, 1>>, <<1, 2>>, <<2, 2>>, <<3, 2>>, <<6, 2>>, <<7, 2>>,
     <<1, 3>>, <<2, 3>>, <<3, 3>>, <<4, 3>>, <<6, 3>>, <<1, 4>>, <<3, 4>>, <<4, 4>>,
     <<5, 4>>, <<6, 4>>, <<2, 5>>, <<3, 5>>, <<4, 5>>, <<7, 5>>, <<1, 6>>, <<2, 6>>,
     <<5, 6>>, <<6, 6>>, <<1, 7>>, <<2, 7>>, <<3, 7>>, <<4, 7>>, <<5, 7>>, <<6, 7>>,
     <<7, 7>>}

CaSeedFree == {<<3, 3>>, <<7, 5>>, <<3, 5>>, <<4, 1>>, <<2, 4>>}

\* CellularAutomataBuilder::new
CellularAutomataBuilderNew ==
    /\ map = MapNew(CaWidth, CaHeight)
    /\ start = <<[x |-> 0, y |-> 0]>>
    /\ rooms = << >>
    /\ spawn_list = << >>
    /\ builder = "cellular_automata"
    /\ pc = "randomize"
    /\ locals = [pass |-> 0]

\* build, the random fill: every interior cell is Floor on a roll above 55,
\* Wall otherwise; `floors` are the cells whose roll was above 55.
CaRandomizeTiles(m, floors) ==
    [m EXCEPT !.tiles =
        [i \in Indices(m) |->
            IF i \in Interior(m) /\ <<IdxX(m, i), IdxY(m, i)>> \in floors
            THEN Floor ELSE Wall]]

CaRandomize ==
    /\ builder = "cellular_automata"
    /\ pc = "randomize"
    /\ \E changed \in SUBSET CaSeedFree :
          map' = CaRandomizeTiles(map, (CaSeedFloors \ changed) \cup (changed \ CaSeedFloors))
    /\ pc' = "passes"
    /\ UNCHANGED <<start, rooms, spawn_list, builder, locals>>
    /\ UNCHANGED chain_vars

\* The Wall tiles among the eight tiles at idx -/+ 1, w, w - 1, w + 1.
CaWallNeighbors(m, idx) ==
    Cardinality({n \in {1, m.width, m.width - 1, m.width + 1} : m.tiles[idx - n] = Wall})
    + Cardinality({n \in {1, m.width, m.width - 1, m.width + 1} : m.tiles[idx + n] = Wall})

\* A defective pass that counts the Wall tiles at idx -/+ 1 and idx -/+ w only.
CaApplyRuleAxisOnly(m) ==
    [m EXCEPT !.tiles =
        [i \in Indices(m) |->
            IF i \in Interior(m)
            THEN IF Cardinality({n \in {-1, 1, -m.width, m.width} : m.tiles[i + n] = Wall}) = 0
                 THEN Wall ELSE Floor
            ELSE m.tiles[i]]]

\* One pass of the rule over a copy of the tiles: an interior cell with more
\* than 4 or with no Wall neighbours is Wall, any other is Floor.
CaApplyRule(m) ==
    [m EXCEPT !.tiles =
        [i \in Indices(m) |->
            IF i \in Interior(m)
            THEN IF CaWallNeighbors(m, i) > 4 \/ CaWallNeighbors(m, i) = 0
                 THEN Wall ELSE Floor
            ELSE m.tiles[i]]]

CaPass ==
    /\ builder = "cellular_automata"
    /\ pc = "passes"
    /\ map' = CaApplyRule(map)
    /\ locals' = [pass |-> locals.pass + 1]
    /\ pc' = IF locals.pass + 1 = CaPasses THEN "locate_start" ELSE "passes"
    /\ UNCHANGED <<start, rooms, spawn_list, builder>>
    /\ UNCHANGED chain_vars

\* The tile indices locate_start can end on: it starts on the centre and
\* lowers x by one while the tile is not Floor. Down to x = 0 that is the
\* centre's row; below x = 0, xy_idx adds a negative x cast to usize, which
\* aborts the run when overflow is checked and otherwise wraps to the tile
\* before, so the scan goes on down the tile indices, and aborts below tile 0.
CaStartCandidates(m) ==
    LET centre_idx == XyIdx(m, Center(m).x, Center(m).y)
        row_start == XyIdx(m, 0, Center(m).y)
        floors_below == {i \in 0..centre_idx : m.tiles[i] = Floor}
        found == CHOOSE i \in floors_below : \A j \in floors_below : j <= i
    IN  IF floors_below = {} THEN {[abort |-> TRUE, idx |-> 0]}
        ELSE IF found >= row_start THEN {[abort |-> FALSE, idx |-> found]}
        ELSE {[abort |-> TRUE, idx |-> 0], [abort |-> FALSE, idx |-> found]}

\* A defective locate_start that keeps the centre whatever its tile is.
CaLocateStartAtCentre ==
    /\ builder = "cellular_automata"
    /\ pc = "locate_start"
    /\ start' = <<Center(map)>>
    /\ pc' = "locate_exit"
    /\ UNCHANGED <<map, rooms, spawn_list, builder, locals>>
    /\ UNCHANGED chain_vars

\* locate_start
CaLocateStart ==
    /\ builder = "cellular_automata"
    /\ pc = "locate_start"
    /\ \E found \in CaStartCandidates(map) :
          IF found.abort
          THEN /\ pc' = "panicked"
               /\ UNCHANGED start
          ELSE /\ start' = <<[x |-> found.idx - XyIdx(map, 0, Center(map).y),
                             y |-> Center(map).y]>>
               /\ pc' = "locate_exit"
    /\ UNCHANGED <<map, rooms, spawn_list, builder, locals>>
    /\ UNCHANGED chain_vars

\* locate_exit
CaLocateExit ==
    /\ builder = "cellular_automata"
    /\ pc = "locate_exit"
    /\ LET r == RemoveUnreachableAreasReturningMostDistant(map, XyIdx(map, start[1].x, start[1].y))
       IN  /\ map' = PlaceExit(r.map, r.exit_tile)
           /\ locals' = [exit_tile |-> r.exit_tile]
    /\ pc' = "done"
    /\ UNCHANGED <<start, rooms, spawn_list, builder>>
    /\ UNCHANGED chain_vars

(***************************************************************************)
(* Area-based starting position (area_based_gen.rs)                        *)
(***************************************************************************)

\* XStart and YStart: the seed column and row a variant stands for.
SeedX(m, x) ==
    CASE x = "LEFT" -> 1
      [] x = "CENTER" -> m.width \div 2
      [] x = "RIGHT" -> m.width - 2

SeedY(m, y) ==
    CASE y = "TOP" -> 1
      [] y = "CENTER" -> m.height \div 2
      [] y = "BOTTOM" -> m.height - 2

\* DistanceAlgorithm::Pythagoras, which get_func maps to the squared distance.
PythagorasSquared(x1, y1, x2, y2) ==
    ((x1 - x2) * (x1 - x2)) + ((y1 - y2) * (y1 - y2))

\* The Floor tiles AreaStartingPosition::build collects.
AvailableFloors(m) == {i \in Indices(m) : m.tiles[i] = Floor}

\* available_floors[0] after the stable sort by distance: the Floor tile
\* nearest to the seed, the lowest index among equally near ones.
NearestFloor(m, seed_x, seed_y) ==
    LET d(i) == PythagorasSquared(IdxX(m, i), IdxY(m, i), seed_x, seed_y)
    IN  CHOOSE i \in AvailableFloors(m) :
            \A j \in AvailableFloors(m) : d(i) < d(j) \/ (d(i) = d(j) /\ i <= j)

\* AreaStartingPosition::build as match_builder chains it behind the cave
\* generator, with XStart::CENTER and YStart::CENTER: it aborts on a map
\* without Floor and otherwise sets the start on the nearest Floor tile.
AreaStartingPosition ==
    /\ builder = "cellular_automata"
    /\ pc = "locate_start"
    /\ IF AvailableFloors(map) = {}
       THEN /\ pc' = "panicked"
            /\ UNCHANGED start
       ELSE LET idx == NearestFloor(map, SeedX(map, "CENTER"), SeedY(map, "CENTER"))
            IN  /\ start' = <<[x |-> idx % map.width, y |-> idx \div map.width]>>
                /\ pc' = "area_start_set"
    /\ UNCHANGED <<map, rooms, spawn_list, builder, locals>>
    /\ UNCHANGED chain_vars

InitBuild ==
    /\ ChainIdle
    /\ \/ RoomsChainNew
       \/ DrunkardsWalkBuilderNew
       \/ CellularAutomataBuilderNew

NextBuild ==
    \/ RoomsAndCorridors
    \/ RoomBasedSpawner
    \/ RoomBasedStartingPosition
    \/ RoomBasedStairs
    \/ DrunkBuildStart
    \/ DrunkSpawnDigger
    \/ DrunkStagger
    \/ DrunkSettle
    \/ DrunkLocateExit
    \/ CaRandomize
    \/ CaPass
    \/ CaLocateStart
    \/ CaLocateExit
    \/ AreaStartingPosition

SpecBuild == InitBuild /\ [][NextBuild]_vars

\* The tiles joined to tile `from` by steps to the left, right, up and down
\* over tiles that are not Wall.
RECURSIVE WalkableFrom(_, _, _)
WalkableFrom(m, seen, frontier) ==
    IF frontier = {} THEN seen
    ELSE LET step == {j \in Indices(m) \ seen :
                        /\ m.tiles[j] # Wall
                        /\ \E i \in frontier :
                              \/ (IdxY(m, i) = IdxY(m, j) /\ Abs(IdxX(m, i) - IdxX(m, j)) = 1)
                              \/ (IdxX(m, i) = IdxX(m, j) /\ Abs(IdxY(m, i) - IdxY(m, j)) = 1)}
         IN  WalkableFrom(m, seen \cup step, step)

(***************************************************************************)
(* C7: in the final spawn list, every entry's tile index is a Floor tile   *)
(* of the finished map and no two entries have the same tile index.        *)
(***************************************************************************)
C7_SpawnsOnDistinctFloorTiles ==
    pc = "done" =>
        /\ \A i \in 1..Len(spawn_list) : map.tiles[spawn_list[i].idx] = Floor
        /\ \A i, j \in 1..Len(spawn_list) : i # j => spawn_list[i].idx # spawn_list[j].idx

\* A finished rooms chain whose spawn list is not empty.
C7_Witness ==
    /\ builder = "rooms"
    /\ pc = "done"
    /\ Len(spawn_list) >= 2
    /\ \A i \in 1..Len(spawn_list) : map.tiles[spawn_list[i].idx] = Floor

(***************************************************************************)
(* C8: after the rooms-and-corridors chain the start is the centre of the  *)
(* first recorded room, the DownStairs tile is at the centre of the last   *)
(* recorded room, and a contiguous path of tiles that are not Wall joins   *)
(* the start to the stairs.                                                *)
(***************************************************************************)
C8_StartAndStairsJoined ==
    (builder = "rooms" /\ pc = "done") =>
        LET first == RectCenter(rooms[1][1])
            last == RectCenter(rooms[1][Len(rooms[1])])
            start_idx == XyIdx(map, start[1].x, start[1].y)
            stairs_idx == XyIdx(map, last.x, last.y)
        IN  /\ start = <<first>>
            /\ map.tiles[stairs_idx] = DownStairs
            /\ map.tiles[start_idx] # Wall
            /\ stairs_idx \in WalkableFrom(map, {start_idx}, {start_idx})

\* Two rooms whose centres differ in both coordinates: the corridor has a bend.
C8_Witness ==
    /\ builder = "rooms"
    /\ pc = "done"
    /\ Len(rooms[1]) = 2
    /\ RectCenter(rooms[1][1]).x # RectCenter(rooms[1][2]).x
    /\ RectCenter(rooms[1][1]).y # RectCenter(rooms[1][2]).y
    /\ map.tiles[XyIdx(map, RectCenter(rooms[1][2]).x, RectCenter(rooms[1][2]).y)] = DownStairs

\* The DownStairs tiles of the map.
DownStairsTiles == {i \in Indices(map) : map.tiles[i] = DownStairs}

C6_ClosedBorder ==
    pc = "done" =>
        \A i \in Indices(map) :
            (\/ IdxX(map, i) = 0 \/ IdxX(map, i) = map.width - 1
             \/ IdxY(map, i) = 0 \/ IdxY(map, i) = map.height - 1) => map.tiles[i] = Wall

\* A finished cave whose only Floor tile is the start: no tile is farther
\* than 0.0 and the exit lands on tile 0.
C6_Witness ==
    /\ builder = "cellular_automata"
    /\ pc = "done"
    /\ locals.exit_tile = 0
    /\ map.tiles[0] = DownStairs
    /\ CountFloorTiles(map) = 1

(***************************************************************************)
(* Wave-function collapse (waveform_collapse)                              *)
(***************************************************************************)

\* Direction, as the discriminant that indexes exits and compatible_with.
North == 0

South == 1

West == 2

East == 3

\* Direction::iterator
DirectionIterator == <<North, South, East, West>>

\* Direction::opposite
Opposite(d) ==
    CASE d = North -> South
      [] d = South -> North
      [] d = West -> East
      [] d = East -> West

\* tile_idx_in_chunks
TileIdxInChunks(chunk_size, x, y) == (y * chunk_size) + x

\* Direction::get_index
GetIndex(d, chunk_size, x) ==
    CASE d = North -> TileIdxInChunks(chunk_size, x, 0)
      [] d = South -> TileIdxInChunks(chunk_size, x, chunk_size - 1)
      [] d = West -> TileIdxInChunks(chunk_size, 0, x)
      [] d = East -> TileIdxInChunks(chunk_size, chunk_size - 1, x)

\* Direction::get_indices: one index per direction, in iterator order.
GetIndices(chunk_size, x) ==
    [i \in 1..4 |-> GetIndex(DirectionIterator[i], chunk_size, x)]

\* Chunk::new
ChunkNew(size, x, y) ==
    [size |-> size,
     start |-> [x |-> x * size, y |-> y * size],
     end |-> [x |-> (x + 1) * size, y |-> (y + 1) * size]]

\* Chunk::into_iter: the positions of the chunk, row by row.
ChunkIntoIter(chunk) ==
    [i \in 1..(chunk.size * chunk.size) |->
        [x |-> chunk.start.x + ((i - 1) % chunk.size),
         y |-> chunk.start.y + ((i - 1) \div chunk.size)]]

\* BuildPattern::add_tiles
AddTiles(m, chunk) ==
    [i \in DOMAIN ChunkIntoIter(chunk) |->
        m.tiles[XyIdx(m, ChunkIntoIter(chunk)[i].x, ChunkIntoIter(chunk)[i].y)]]

\* BuildPattern::flip_horizontal
FlipHorizontal(m, chunk) ==
    [i \in DOMAIN ChunkIntoIter(chunk) |->
        m.tiles[XyIdx(m, chunk.end.x - (ChunkIntoIter(chunk)[i].x + 1),
                      ChunkIntoIter(chunk)[i].y)]]

\* BuildPattern::flip_vertical
FlipVertical(m, chunk) ==
    [i \in DOMAIN ChunkIntoIter(chunk) |->
        m.tiles[XyIdx(m, ChunkIntoIter(chunk)[i].x,
                      chunk.end.y - (ChunkIntoIter(chunk)[i].y + 1))]]

\* BuildPattern::flip_both
FlipBoth(m, chunk) ==
    [i \in DOMAIN ChunkIntoIter(chunk) |->
        m.tiles[XyIdx(m, chunk.end.x - (ChunkIntoIter(chunk)[i].x + 1),
                      chunk.end.y - (ChunkIntoIter(chunk)[i].y + 1))]]

\* The orders a HashSet can hand its elements out in.
Orderings(S) ==
    {f \in [1..Cardinality(S) -> S] :
        \A a, b \in 1..Cardinality(S) : a # b => f[a] # f[b]}

\* build_patterns with include_flipping and dedupe, as build calls it: the
\* pattern of every chunk and its three flips, without duplicates, in the
\* order the HashSet yields them.
BuildPatterns(m, chunk_size) ==
    LET chunks == {ChunkNew(chunk_size, cx, cy) :
                      cx \in 0..((m.width \div chunk_size) - 1),
                      cy \in 0..((m.height \div chunk_size) - 1)}
    IN  Orderings(UNION {{AddTiles(m, c), FlipHorizontal(m, c),
                          FlipVertical(m, c), FlipBoth(m, c)} : c \in chunks})

\* patterns_to_constraints, first loop: exits[i][x] is set when the border
\* tile get_indices(chunk_size, x) yields in i-th place is Floor.
ChunkExits(pattern, chunk_size) ==
    [i \in 0..3 |->
        [x \in 0..(chunk_size - 1) |->
            pattern[GetIndices(chunk_size, x)[i + 1] + 1] = Floor]]

\* n_exits of that loop.
NExits(exits) ==
    Cardinality({e \in (DOMAIN exits) \X (DOMAIN exits[0]) : exits[e[1]][e[2]]})

\* The MapChunk the first loop pushes: has_exits = (n_exits == 0).
NewChunk(pattern, chunk_size) ==
    [pattern |-> pattern,
     exits |-> ChunkExits(pattern, chunk_size),
     has_exits |-> NExits(ChunkExits(pattern, chunk_size)) = 0,
     compatible_with |-> [d \in 0..3 |-> << >>]]

\* A variant of the else branch without its last statement: only a pattern
\* that fits is pushed, and only on the list of the direction at hand.
DirectionPushesFitting(constraint, potential, j, d, k) ==
    LET direction == DirectionIterator[k]
        exit_list == constraint.exits[k - 1]
        it_fits == \E slot \in DOMAIN exit_list :
                      exit_list[slot] /\ potential.exits[Opposite(direction)][slot]
    IN  IF it_fits /\ direction = d THEN <<j>> ELSE << >>

\* patterns_to_constraints, second loop, else branch: what the k-th turn of
\* Direction::iterator().zip(constraint.exits) pushes on compatible_with[d].
DirectionPushes(constraint, potential, j, d, k) ==
    LET direction == DirectionIterator[k]
        exit_list == constraint.exits[k - 1]
        it_fits == \E slot \in DOMAIN exit_list :
                      exit_list[slot] /\ potential.exits[Opposite(direction)][slot]
        has_any == \E slot \in DOMAIN exit_list : exit_list[slot]
    IN  (IF it_fits /\ direction = d THEN <<j>> ELSE << >>)
        \o (IF ~has_any THEN <<j>> ELSE << >>)

\* patterns_to_constraints, second loop: what the pair of `constraint` and
\* the j-th `potential` pushes on compatible_with[d].
PairPushes(constraint, potential, j, d) ==
    IF ~constraint.has_exits \/ ~potential.has_exits
    THEN <<j>>
    ELSE DirectionPushes(constraint, potential, j, d, 1)
         \o DirectionPushes(constraint, potential, j, d, 2)
         \o DirectionPushes(constraint, potential, j, d, 3)
         \o DirectionPushes(constraint, potential, j, d, 4)

\* compatible_with[d] of `constraint` after the first n potentials.
RECURSIVE CompatibleWith(_, _, _, _)
CompatibleWith(cloned_constraints, constraint, d, n) ==
    IF n = 0 THEN << >>
    ELSE CompatibleWith(cloned_constraints, constraint, d, n - 1)
         \o PairPushes(constraint, cloned_constraints[n], n - 1, d)

\* patterns_to_constraints
PatternsToConstraints(patterns, chunk_size) ==
    LET cloned_constraints == [i \in DOMAIN patterns |-> NewChunk(patterns[i], chunk_size)]
    IN  [i \in DOMAIN patterns |->
            [cloned_constraints[i] EXCEPT !.compatible_with =
                [d \in 0..3 |-> CompatibleWith(cloned_constraints, cloned_constraints[i],
                                               d, Len(patterns))]]]

\* Solver::new; a chunk is << >> while unresolved and <<n>> once resolved,
\* and remaining holds the pairs <<chunk index, neighbour count>>.
SolverNew(constraints, chunk_size, m) ==
    LET chunks_x == m.width \div chunk_size
        chunks_y == m.height \div chunk_size
    IN  [constraints |-> constraints,
         chunk_size |-> chunk_size,
         chunks |-> [i \in 0..((chunks_x * chunks_y) - 1) |-> << >>],
         chunks_x |-> chunks_x,
         chunks_y |-> chunks_y,
         remaining |-> [i \in 1..(chunks_x * chunks_y) |-> <<i - 1, 0>>],
         possible |-> TRUE]

\* Solver::chunk_idx
ChunkIdx(s, x, y) == (y * s.chunks_x) + x

\* The chunks count_neighbors and iteration look at around (chunk_x, chunk_y),
\* each with the direction of the compatibility list iteration reads from it.
Neighbors(s, chunk_x, chunk_y) ==
    (IF chunk_x > 0
     THEN {<<ChunkIdx(s, chunk_x - 1, chunk_y), East>>} ELSE {})
    \cup (IF chunk_x < s.chunks_x - 1
          THEN {<<ChunkIdx(s, chunk_x + 1, chunk_y), West>>} ELSE {})
    \cup (IF chunk_y > 0
          THEN {<<ChunkIdx(s, chunk_x, chunk_y - 1), South>>} ELSE {})
    \cup (IF chunk_y < s.chunks_y - 1
          THEN {<<ChunkIdx(s, chunk_x, chunk_y + 1), North>>} ELSE {})

\* Whether one of those reads of self.chunks is past its end, which aborts.
OutOfBounds(s, chunk_x, chunk_y) ==
    \E n \in Neighbors(s, chunk_x, chunk_y) : n[1] \notin DOMAIN s.chunks

\* Solver::count_neighbors
CountNeighbors(s, chunk_x, chunk_y) ==
    Cardinality({n \in Neighbors(s, chunk_x, chunk_y) : s.chunks[n[1]] # << >>})

\* iteration, the recount loop: chunk_x = idx % chunks_x, chunk_y = idx / chunks_y.
RecountAborts(s) ==
    \E i \in DOMAIN s.remaining :
        OutOfBounds(s, s.remaining[i][1] % s.chunks_x, s.remaining[i][1] \div s.chunks_y)

Recount(s) ==
    [i \in DOMAIN s.remaining |->
        <<s.remaining[i][1],
          CountNeighbors(s, s.remaining[i][1] % s.chunks_x,
                         s.remaining[i][1] \div s.chunks_y)>>]

\* remaining.sort_by(|a, b| b.1.cmp(&a.1)): stable, most neighbours first.
SortByNeighbors(remaining) ==
    LET having(n) == SelectSeq(remaining, LAMBDA r : r[2] = n)
    IN  having(4) \o having(3) \o having(2) \o having(1) \o having(0)

\* Vec::remove at a zero-based position.
RemoveAt(seq, i) == SubSeq(seq, 1, i) \o SubSeq(seq, i + 2, Len(seq))

\* Solver::apply_constraints_to_map
ApplyConstraintsToMap(s, m, chunk_x, chunk_y, new_chunk_idx) ==
    LET lx == chunk_x * s.chunk_size
        rx == (chunk_x + 1) * s.chunk_size
        ty == chunk_y * s.chunk_size
        by == (chunk_y + 1) * s.chunk_size
    IN  [m EXCEPT !.tiles =
            [t \in Indices(m) |->
                IF /\ IdxX(m, t) >= lx /\ IdxX(m, t) < rx
                   /\ IdxY(m, t) >= ty /\ IdxY(m, t) < by
                THEN s.constraints[new_chunk_idx + 1].pattern[
                         ((IdxY(m, t) - ty) * s.chunk_size) + (IdxX(m, t) - lx) + 1]
                ELSE m.tiles[t]]]

\* The outcomes of one call of a solver method: whether it aborted, the
\* value it returned, the solver and the map it leaves.
Outcome(panic, done, s, m) == [panic |-> panic, done |-> done, solver |-> s, map |-> m]

\* How many different values one draw of the random-number stream can have.
RollValues == 4

RawRolls == 0..(RollValues - 1)

\* rng.roll_dice(1, n) - 1 when the stream delivers the value u.
RollDice(u, n) == u % n

\* What one call makes of the stream: its outcome and how many values of
\* the stream it has used up.
Rolled(outcome, used) == [outcome |-> outcome, used |-> used]

\* iteration from `let chunk_idx = self.remaining.remove(r_idx).1` on, with
\* the entry already removed: chunk_idx is the neighbour count of that entry.
\* Every outcome for the next value of the stream drawn from U.
ResolveOver(s, m, chunk_idx, U) ==
    LET chunk_x == chunk_idx % s.chunks_x
        chunk_y == chunk_idx \div s.chunks_x
        resolved == {n \in Neighbors(s, chunk_x, chunk_y) : s.chunks[n[1]] # << >>}
        options == {{s.constraints[s.chunks[n[1]][1] + 1].compatible_with[n[2]][k] :
                        k \in DOMAIN s.constraints[s.chunks[n[1]][1] + 1].compatible_with[n[2]]} :
                    n \in resolved}
        to_check == UNION options
        possible_options == {c \in to_check : \A option \in options : c \in option}
        place(new_chunk_idx) ==
            Outcome(FALSE, FALSE,
                    [s EXCEPT !.chunks[chunk_idx] = <<new_chunk_idx>>],
                    ApplyConstraintsToMap(s, m, chunk_x, chunk_y, new_chunk_idx))
    IN  IF OutOfBounds(s, chunk_x, chunk_y)
        THEN {Rolled(Outcome(TRUE, FALSE, s, m), 0)}
        ELSE IF resolved = {}
        THEN IF chunk_idx \notin DOMAIN s.chunks
             THEN {Rolled(Outcome(TRUE, FALSE, s, m), 1)}
             ELSE {Rolled(place(RollDice(u, Len(s.constraints))), 1) : u \in U}
        ELSE IF possible_options = {}
        THEN {Rolled(Outcome(FALSE, TRUE, [s EXCEPT !.possible = FALSE], m), 0)}
        ELSE IF Cardinality(possible_options) = 1
        THEN IF chunk_idx \notin DOMAIN s.chunks
             THEN {Rolled(Outcome(TRUE, FALSE, s, m), 0)}
             ELSE {Rolled(place(0), 0)}
        ELSE IF chunk_idx \notin DOMAIN s.chunks
        THEN {Rolled(Outcome(TRUE, FALSE, s, m), 1)}
        ELSE {Rolled(place(RollDice(u, Cardinality(possible_options))), 1) : u \in U}

\* Solver::iteration: every outcome of one call when the stream delivers a
\* value of U1 and then a value of U2.
IterationOver(s, m, U1, U2) ==
    IF s.remaining = << >> THEN {Rolled(Outcome(FALSE, TRUE, s, m), 0)}
    ELSE IF RecountAborts(s) THEN {Rolled(Outcome(TRUE, FALSE, s, m), 0)}
    ELSE UNION {
            LET neighbors_exist == \E i \in DOMAIN remaining : remaining[i][2] > 0
                r_idxs == IF ~neighbors_exist
                          THEN {RollDice(u, Len(remaining)) : u \in U1} ELSE {0}
            IN  UNION {{Rolled(r.outcome, removed.used + r.used) :
                           r \in ResolveOver(removed.solver, m, removed.chunk_idx, removed.next)} :
                       removed \in {[solver |-> [s EXCEPT !.remaining = RemoveAt(remaining, r_idx)],
                                     chunk_idx |-> remaining[r_idx + 1][2],
                                     used |-> IF ~neighbors_exist THEN 1 ELSE 0,
                                     next |-> IF ~neighbors_exist THEN U2 ELSE U1] :
                                        r_idx \in r_idxs}}
            : remaining \in {SortByNeighbors(Recount(s))}}

\* Solver::iteration: every outcome of one call.
Iteration(s, m) ==
    {r.outcome : r \in IterationOver(s, m, RawRolls, RawRolls)}

\* Solver::iteration when the stream delivers u1 and then u2.
IterationRolled(s, m, u1, u2) ==
    CHOOSE r \in IterationOver(s, m, {u1}, {u2}) : TRUE

\* const CHUNK_SIZE, 7 in the game.
CHUNK_SIZE == 2

\* Sizes of the maps the solver runs on. The game's 80 x 43 map has more
\* chunk columns than chunk rows (11 x 6); the model runs one map of that
\* kind, WfcWidth x WfcHeight, and one with as many columns as rows.
WfcWidth == 8

WfcHeight == 5

WfcShapes == {<<WfcWidth, WfcHeight>>, <<WfcHeight, WfcHeight>>}

\* The source levels that are sampled: corridors along any of the inner rows.
WfcSourceLevel(w, h, rows) ==
    [MapNew(w, h) EXCEPT !.tiles =
        [i \in 0..((w * h) - 1) |-> IF (i \div w) \in rows THEN Floor ELSE Wall]]

\* WaveformCollapseBuilder::build once self.map holds the source level.
InitWfc ==
    /\ ChainIdle
    /\ \E shape \in WfcShapes :
          \E rows \in SUBSET (1..(shape[2] - 2)) :
              map = WfcSourceLevel(shape[1], shape[2], rows)
    /\ start = <<[x |-> 0, y |-> 0]>>
    /\ rooms = << >>
    /\ spawn_list = << >>
    /\ builder = "wfc"
    /\ pc = "build_patterns"
    /\ locals = [chunk_size |-> CHUNK_SIZE]

\* build: the catalog is derived from the source level, then self.map is
\* replaced by a fresh map.
WfcBuildPatterns ==
    /\ builder = "wfc"
    /\ pc = "build_patterns"
    /\ \E patterns \in BuildPatterns(map, locals.chunk_size) :
          locals' = [chunk_size |-> locals.chunk_size,
                     constraints |-> PatternsToConstraints(patterns, locals.chunk_size)]
    /\ map' = MapNew(map.width, map.height)
    /\ pc' = "new_solver"
    /\ UNCHANGED <<start, rooms, spawn_list, builder>>
    /\ UNCHANGED chain_vars

\* build, the head of `loop`: a new Solver over the catalog and self.map.
WfcSolverNew ==
    /\ builder = "wfc"
    /\ pc = "new_solver"
    /\ locals' = [chunk_size |-> locals.chunk_size,
                  constraints |-> locals.constraints,
                  solver |-> SolverNew(locals.constraints, locals.chunk_size, map)]
    /\ pc' = "iterate"
    /\ UNCHANGED <<map, start, rooms, spawn_list, builder>>
    /\ UNCHANGED chain_vars

\* build, `while !solver.iteration(&mut self.map, &mut rng)`: one call.
WfcIteration ==
    /\ builder = "wfc"
    /\ pc = "iterate"
    /\ \E r \in Iteration(locals.solver, map) :
          /\ map' = r.map
          /\ locals' = [locals EXCEPT !.solver = r.solver]
          /\ pc' = IF r.panic THEN "panicked"
                   ELSE IF r.done THEN "attempt_done" ELSE "iterate"
    /\ UNCHANGED <<start, rooms, spawn_list, builder>>
    /\ UNCHANGED chain_vars

\* build, the foot of `loop`: break when the solver is still possible,
\* otherwise go round again.
WfcAttemptEnd ==
    /\ builder = "wfc"
    /\ pc = "attempt_done"
    /\ pc' = IF locals.solver.possible THEN "solved" ELSE "new_solver"
    /\ UNCHANGED <<map, start, rooms, spawn_list, builder, locals>>
    /\ UNCHANGED chain_vars

NextWfc ==
    \/ WfcBuildPatterns
    \/ WfcSolverNew
    \/ WfcIteration
    \/ WfcAttemptEnd

SpecWfc == InitWfc /\ [][NextWfc]_vars

\* The build runs on one thread that keeps taking its next step.
SpecWfcFair == SpecWfc /\ WF_vars(NextWfc)

(***************************************************************************)
(* C9: every run eventually leaves the solve loop of the WFC stage with a  *)
(* feasible grid; it neither aborts nor loops forever.                     *)
(***************************************************************************)
C9_SolveLoopEnds == <>(builder = "wfc" /\ pc = "solved")

\* A run that aborted in the solver and left the map without a Floor tile.
C9_Witness ==
    /\ builder = "wfc"
    /\ pc = "panicked"
    /\ CountFloorTiles(map) = 0

\* The solve has finished and the solver still reports possible.
SolveFinished ==
    /\ builder = "wfc"
    /\ pc \in {"attempt_done", "solved"}
    /\ locals.solver.possible

\* Pattern b may stand on side d of pattern a by the catalog's lists.
Compatible(s, a, d, b) ==
    \E k \in DOMAIN s.constraints[a + 1].compatible_with[d] :
        s.constraints[a + 1].compatible_with[d][k] = b

\* Every chunk of the grid is resolved and every two adjacent chunks are
\* compatible in both directions.
GridResolved(s) ==
    /\ \A i \in DOMAIN s.chunks : s.chunks[i] # << >>
    /\ \A x \in 0..(s.chunks_x - 1), y \in 0..(s.chunks_y - 1) :
          /\ x + 1 < s.chunks_x =>
                /\ Compatible(s, s.chunks[ChunkIdx(s, x, y)][1], East,
                              s.chunks[ChunkIdx(s, x + 1, y)][1])
                /\ Compatible(s, s.chunks[ChunkIdx(s, x + 1, y)][1], West,
                              s.chunks[ChunkIdx(s, x, y)][1])
          /\ y + 1 < s.chunks_y =>
                /\ Compatible(s, s.chunks[ChunkIdx(s, x, y)][1], South,
                              s.chunks[ChunkIdx(s, x, y + 1)][1])
                /\ Compatible(s, s.chunks[ChunkIdx(s, x, y + 1)][1], North,
                              s.chunks[ChunkIdx(s, x, y)][1])

(***************************************************************************)
(* C10: when a solve finishes with `possible` still true, every chunk of   *)
(* the grid is resolved to a pattern and every pair of adjacent chunks is  *)
(* compatible by the catalog's compatibility lists.                        *)
(***************************************************************************)
C10_FinishedSolveResolvesGrid == SolveFinished => GridResolved(locals.solver)

\* A solve on the grid with more columns than rows, as the game's is: the
\* first call of iteration aborts with every chunk still unresolved.
C10_Witness ==
    /\ builder = "wfc"
    /\ pc = "panicked"
    /\ locals.solver.chunks_x > locals.solver.chunks_y
    /\ Len(locals.solver.remaining) = locals.solver.chunks_x * locals.solver.chunks_y
    /\ \A i \in DOMAIN locals.solver.chunks : locals.solver.chunks[i] = << >>

\* The chunks a solver holds a pattern for, and the chunks it still lists
\* as remaining.
ResolvedChunks(s) == {i \in DOMAIN s.chunks : s.chunks[i] # << >>}

UnresolvedChunks(s) == {s.remaining[k][1] : k \in DOMAIN s.remaining}

\* The number of resolved chunks next to chunk i of the grid.
ResolvedNeighbours(s, i) == CountNeighbors(s, i % s.chunks_x, i \div s.chunks_x)

(***************************************************************************)
(* C16: every solver iteration that resolves a chunk takes an unresolved   *)
(* chunk with the largest number of resolved neighbours, exactly that      *)
(* chunk leaves the unresolved set and becomes resolved, and afterwards    *)
(* the resolved and the unresolved chunks are disjoint and together make   *)
(* up the grid.                                                            *)
(***************************************************************************)
C16_ChosenChunkResolved ==
    [][(builder = "wfc" /\ pc = "iterate" /\ pc' = "iterate") =>
          /\ \E c \in UnresolvedChunks(locals.solver) :
                /\ UnresolvedChunks(locals'.solver) = UnresolvedChunks(locals.solver) \ {c}
                /\ ResolvedChunks(locals'.solver) = ResolvedChunks(locals.solver) \cup {c}
                /\ \A d \in UnresolvedChunks(locals.solver) :
                      ResolvedNeighbours(locals.solver, c) >= ResolvedNeighbours(locals.solver, d)
          /\ ResolvedChunks(locals'.solver) \cap UnresolvedChunks(locals'.solver) = {}
          /\ ResolvedChunks(locals'.solver) \cup UnresolvedChunks(locals'.solver)
                = DOMAIN locals'.solver.chunks]_vars

\* An iteration has left a chunk both resolved and listed as remaining, and
\* another chunk neither.
C16_Witness ==
    /\ builder = "wfc"
    /\ pc = "iterate"
    /\ ResolvedChunks(locals.solver) \cap UnresolvedChunks(locals.solver) # {}
    /\ ResolvedChunks(locals.solver) \cup UnresolvedChunks(locals.solver)
          # DOMAIN locals.solver.chunks

\* The chunk the next call of iteration resolves: the neighbour count at the
\* head of the sorted `remaining` (all counts are 0 when r_idx is rolled).
ChosenChunk(s) == SortByNeighbors(Recount(s))[1][2]

\* The resolved chunks next to chunk c, each with its side that faces c.
FacingResolved(s, c) ==
    {f \in ResolvedChunks(s) \X {North, South, West, East} :
        \/ f[2] = East /\ f[1] + 1 = c /\ f[1] \div s.chunks_x = c \div s.chunks_x
        \/ f[2] = West /\ f[1] = c + 1 /\ f[1] \div s.chunks_x = c \div s.chunks_x
        \/ f[2] = South /\ f[1] + s.chunks_x = c
        \/ f[2] = North /\ f[1] = c + s.chunks_x}

\* Catalog pattern b is in the list of every resolved neighbour of chunk c.
FitsAllNeighbours(s, c, b) ==
    \A f \in FacingResolved(s, c) : Compatible(s, s.chunks[f[1]][1], f[2], b)

\* The tiles of chunk c in map m are those of catalog pattern b.
Renders(s, m, c, b) ==
    \A t \in Indices(m) :
        (IdxX(m, t) \div s.chunk_size = c % s.chunks_x
            /\ IdxY(m, t) \div s.chunk_size = c \div s.chunks_x)
        => m.tiles[t] = s.constraints[b + 1].pattern[
                            ((IdxY(m, t) % s.chunk_size) * s.chunk_size)
                            + (IdxX(m, t) % s.chunk_size) + 1]

\* The next call of iteration resolves a chunk that has a resolved neighbour.
ResolvesNextToResolved ==
    /\ builder = "wfc"
    /\ pc = "iterate"
    /\ locals.solver.remaining # << >>
    /\ ~RecountAborts(locals.solver)
    /\ ChosenChunk(locals.solver) \in DOMAIN locals.solver.chunks
    /\ FacingResolved(locals.solver, ChosenChunk(locals.solver)) # {}

InitWfcCatalog ==
    /\ ChainIdle
    /\ \E floors \in SUBSET Indices(MapNew(CHUNK_SIZE, CHUNK_SIZE)) :
          map = [MapNew(CHUNK_SIZE, CHUNK_SIZE) EXCEPT
                    !.tiles = [i \in Indices(MapNew(CHUNK_SIZE, CHUNK_SIZE)) |->
                                  IF i \in floors THEN Floor ELSE Wall]]
    /\ start = <<[x |-> 0, y |-> 0]>>
    /\ rooms = << >>
    /\ spawn_list = << >>
    /\ builder = "wfc"
    /\ pc = "build_patterns"
    /\ locals = [chunk_size |-> CHUNK_SIZE]

SpecWfcCatalog == InitWfcCatalog /\ [][NextWfc]_vars

\* Slot x on side d of a pattern is an exit: the border tile is Floor.
ExitOn(pattern, chunk_size, d, x) == pattern[GetIndex(d, chunk_size, x) + 1] = Floor

\* A pattern without an exit on any of its four sides.
ExitFree(pattern, chunk_size) ==
    \A d \in {North, South, West, East}, x \in 0..(chunk_size - 1) :
        ~ExitOn(pattern, chunk_size, d, x)

(***************************************************************************)
(* C18: for every ordered pair of catalog patterns A, B and every          *)
(* direction d, B is listed in A.compatible_with[d] if and only if A or B  *)
(* is exit-free or some border slot is an exit on side d of A and on the   *)
(* opposite side of B; and the flag of a pattern is set exactly when the   *)
(* pattern is exit-free.                                                   *)
(***************************************************************************)
C18_CompatibleIffExitsMeet ==
    (builder = "wfc" /\ pc \in {"new_solver", "iterate", "attempt_done", "solved"}) =>
        /\ \A a, b \in DOMAIN locals.constraints :
              \A d \in {North, South, West, East} :
                  (\E k \in DOMAIN locals.constraints[a].compatible_with[d] :
                      locals.constraints[a].compatible_with[d][k] = b - 1)
                  <=> \/ ExitFree(locals.constraints[a].pattern, locals.chunk_size)
                      \/ ExitFree(locals.constraints[b].pattern, locals.chunk_size)
                      \/ \E x \in 0..(locals.chunk_size - 1) :
                            /\ ExitOn(locals.constraints[a].pattern, locals.chunk_size, d, x)
                            /\ ExitOn(locals.constraints[b].pattern, locals.chunk_size,
                                      Opposite(d), x)
        /\ \A a \in DOMAIN locals.constraints :
              locals.constraints[a].has_exits
                  <=> ExitFree(locals.constraints[a].pattern, locals.chunk_size)

\* A catalog with two patterns that both have exits and whose exits do not
\* meet across some side.
C18_Witness ==
    /\ builder = "wfc"
    /\ pc = "new_solver"
    /\ \E a, b \in DOMAIN locals.constraints :
          /\ ~ExitFree(locals.constraints[a].pattern, locals.chunk_size)
          /\ ~ExitFree(locals.constraints[b].pattern, locals.chunk_size)
          /\ \E d \in {North, South, West, East} :
                \A x \in 0..(locals.chunk_size - 1) :
                    ~(/\ ExitOn(locals.constraints[a].pattern, locals.chunk_size, d, x)
                      /\ ExitOn(locals.constraints[b].pattern, locals.chunk_size,
                                Opposite(d), x))

(***************************************************************************)
(* The solve loop of the WFC build with a catalog on which an attempt can  *)
(* end infeasible. patterns_to_constraints lists every pattern everywhere, *)
(* so the loop is entered here with compatibility lists as the             *)
(* specification describes them: B is listed on side d of A when A or B is *)
(* exit-free or their exits meet across that side.                         *)
(***************************************************************************)

\* The catalog of `patterns` with the compatibility lists of the
\* specification.
ConstraintsAsSpecified(patterns, chunk_size) ==
    [a \in DOMAIN patterns |->
        [NewChunk(patterns[a], chunk_size) EXCEPT !.compatible_with =
            [d \in 0..3 |->
                SelectSeq([b \in DOMAIN patterns |-> b - 1],
                          LAMBDA j :
                              \/ ExitFree(patterns[a], chunk_size)
                              \/ ExitFree(patterns[j + 1], chunk_size)
                              \/ \E x \in 0..(chunk_size - 1) :
                                    /\ ExitOn(patterns[a], chunk_size, d, x)
                                    /\ ExitOn(patterns[j + 1], chunk_size, Opposite(d), x))]]]

\* build at the head of `loop`: self.map = Map::new(depth) has just run.
InitWfcRetry ==
    /\ ChainIdle
    /\ map = MapNew(WfcHeight, WfcHeight)
    /\ start = <<[x |-> 0, y |-> 0]>>
    /\ rooms = << >>
    /\ spawn_list = << >>
    /\ builder = "wfc"
    /\ pc = "new_solver"
    /\ \E floors \in SUBSET Indices(MapNew(CHUNK_SIZE, CHUNK_SIZE)) :
          \E patterns \in BuildPatterns(
                  [MapNew(CHUNK_SIZE, CHUNK_SIZE) EXCEPT
                      !.tiles = [i \in Indices(MapNew(CHUNK_SIZE, CHUNK_SIZE)) |->
                                    IF i \in floors THEN Floor ELSE Wall]],
                  CHUNK_SIZE) :
              locals = [chunk_size |-> CHUNK_SIZE,
                        constraints |-> ConstraintsAsSpecified(patterns, CHUNK_SIZE)]

NextWfcRetry ==
    \/ WfcSolverNew
    \/ WfcIteration
    \/ WfcAttemptEnd

SpecWfcRetry == InitWfcRetry /\ [][NextWfcRetry]_vars

WfcRunNew(patterns, chunk_size, m) ==
    [constraints |-> PatternsToConstraints(patterns, chunk_size),
     solver |-> << >>,
     map |-> MapNew(m.width, m.height),
     pc |-> "new_solver",
     pos |-> 0]

\* One step of build for one run: Solver::new, one call of iteration, or
\* the foot of `loop`. stream holds the next two values of the stream.
WfcRunStep(run, chunk_size, stream) ==
    IF run.pc = "new_solver"
    THEN [run EXCEPT !.solver = <<SolverNew(run.constraints, chunk_size, run.map)>>,
                     !.pc = "iterate"]
    ELSE IF run.pc = "iterate"
    THEN LET r == IterationRolled(run.solver[1], run.map,
                                  stream[1], stream[2])
         IN  [run EXCEPT !.solver = <<r.outcome.solver>>,
                         !.map = r.outcome.map,
                         !.pc = IF r.outcome.panic THEN "panicked"
                                ELSE IF r.outcome.done THEN "attempt_done" ELSE "iterate",
                         !.pos = run.pos + r.used]
    ELSE IF run.pc = "attempt_done"
    THEN [run EXCEPT !.pc = IF run.solver[1].possible THEN "solved" ELSE "new_solver"]
    ELSE run

WfcRunEnded(run) == run.pc \in {"solved", "panicked"}

InitWfcPair ==
    /\ ChainIdle
    /\ \E shape \in WfcShapes :
          \E rows \in SUBSET (1..(shape[2] - 2)) :
              map = WfcSourceLevel(shape[1], shape[2], rows)
    /\ start = <<[x |-> 0, y |-> 0]>>
    /\ rooms = << >>
    /\ spawn_list = << >>
    /\ builder = "wfc_pair"
    /\ pc = "build_patterns"
    /\ locals = [chunk_size |-> CHUNK_SIZE]

\* Both runs derive their catalog from the source level.
WfcPairBuildPatterns ==
    /\ builder = "wfc_pair"
    /\ pc = "build_patterns"
    /\ \E first, second \in BuildPatterns(map, locals.chunk_size) :
          locals' = [chunk_size |-> locals.chunk_size,
                     stream |-> << >>,
                     first |-> WfcRunNew(first, locals.chunk_size, map),
                     second |-> WfcRunNew(second, locals.chunk_size, map)]
    /\ pc' = "solve"
    /\ UNCHANGED <<map, start, rooms, spawn_list, builder>>
    /\ UNCHANGED chain_vars

\* Both runs take their next step. The stream is the same for both: what
\* one run has read of it is what the other reads at the same place.
\* locals.stream holds the values one run has read and the other has not.
WfcPairStep ==
    /\ builder = "wfc_pair"
    /\ pc = "solve"
    /\ \E u1, u2 \in RawRolls :
          LET base == Min(locals.first.pos, locals.second.pos)
              stream == locals.stream \o <<u1, u2>>
              ahead(run) == SubSeq(stream, (run.pos - base) + 1, (run.pos - base) + 2)
              first == WfcRunStep(locals.first, locals.chunk_size, ahead(locals.first))
              second == WfcRunStep(locals.second, locals.chunk_size, ahead(locals.second))
          IN  /\ locals' = [locals EXCEPT
                               !.stream = SubSeq(stream,
                                                 (Min(first.pos, second.pos) - base) + 1,
                                                 Max(first.pos, second.pos) - base),
                               !.first = first,
                               !.second = second]
              /\ pc' = IF WfcRunEnded(first) /\ WfcRunEnded(second) THEN "ended" ELSE "solve"
    /\ UNCHANGED <<map, start, rooms, spawn_list, builder>>
    /\ UNCHANGED chain_vars

NextWfcPair ==
    \/ WfcPairBuildPatterns
    \/ WfcPairStep

SpecWfcPair == InitWfcPair /\ [][NextWfcPair]_vars

(***************************************************************************)
(* C13: two WFC runs on the same source level with the same random-number  *)
(* stream end alike: both abort, or both produce the same map from the     *)
(* same grid of resolved chunks, or both find the attempt infeasible at    *)
(* the same point. The order in which a HashSet yields the catalog or the  *)
(* candidates has no influence.                                            *)
(***************************************************************************)
C13_SameStreamSameMap ==
    (builder = "wfc_pair" /\ pc = "ended") =>
        /\ locals.first.pc = locals.second.pc
        /\ locals.first.map = locals.second.map
        /\ locals.first.solver[1].chunks = locals.second.solver[1].chunks
        /\ locals.first.solver[1].remaining = locals.second.solver[1].remaining
        /\ locals.first.solver[1].possible = locals.second.solver[1].possible

\* Both runs solved their grid reading the same values at the same places
\* of the stream, from catalogs that hold the same patterns in a different
\* order.
C13_Witness ==
    /\ builder = "wfc_pair"
    /\ pc = "ended"
    /\ locals.first.pc = "solved"
    /\ locals.second.pc = "solved"
    /\ locals.first.pos = locals.second.pos
    /\ locals.first.pos > 0
    /\ locals.first.solver[1].chunks = locals.second.solver[1].chunks
    /\ locals.first.constraints # locals.second.constraints

(***************************************************************************)
(* MazeBuilder: the recursive backtracker of Grid::generate_maze.          *)
(***************************************************************************)

\* const TOP, RIGHT, BOTTOM, LEFT: the places of the four walls of a cell.
TOP == 0

RIGHT == 1

BOTTOM == 2

LEFT == 3

\* generate_maze copies the grid to the map on every turn of its loop whose
\* number is a multiple of this: 50 in the game, where a maze takes 1746
\* turns.
SnapshotEvery == 5

\* The largest grid the maze is generated on.
MazeWidth == 3

MazeHeight == 3

\* Cell::new
CellNew(row, col) ==
    [row |-> row, col |-> col, walls |-> [w \in 0..3 |-> TRUE], visited |-> FALSE]

\* A defective remove_walls that opens the wall on the side of `self` only.
RemoveWallsOneSided(self, next) ==
    LET x == self.col - next.col
        y == self.row - next.row
    IN  IF x = 1 THEN <<[self EXCEPT !.walls[LEFT] = FALSE], next>>
        ELSE IF x = -1 THEN <<[self EXCEPT !.walls[RIGHT] = FALSE], next>>
        ELSE IF y = 1 THEN <<[self EXCEPT !.walls[TOP] = FALSE], next>>
        ELSE IF y = -1 THEN <<[self EXCEPT !.walls[BOTTOM] = FALSE], next>>
        ELSE <<self, next>>

\* Cell::remove_walls: the two cells afterwards.
RemoveWalls(self, next) ==
    LET x == self.col - next.col
        y == self.row - next.row
    IN  IF x = 1
        THEN <<[self EXCEPT !.walls[LEFT] = FALSE], [next EXCEPT !.walls[RIGHT] = FALSE]>>
        ELSE IF x = -1
        THEN <<[self EXCEPT !.walls[RIGHT] = FALSE], [next EXCEPT !.walls[LEFT] = FALSE]>>
        ELSE IF y = 1
        THEN <<[self EXCEPT !.walls[TOP] = FALSE], [next EXCEPT !.walls[BOTTOM] = FALSE]>>
        ELSE IF y = -1
        THEN <<[self EXCEPT !.walls[BOTTOM] = FALSE], [next EXCEPT !.walls[TOP] = FALSE]>>
        ELSE <<self, next>>

\* Grid::new, with the loop counter of generate_maze.
GridNew(width, height) ==
    [width |-> width,
     height |-> height,
     cells |-> [c \in 0..((width * height) - 1) |-> CellNew(c \div width, c % width)],
     backtrace |-> << >>,
     current |-> 0,
     i |-> 0]

\* Grid::calculate_index
CalculateIndex(g, row, col) ==
    IF row < 0 \/ col < 0 \/ col > g.width - 1 \/ row > g.height - 1
    THEN -1
    ELSE col + (row * g.width)

\* Grid::get_available_neighbors: above, right, below, left, those that are
\* on the grid and not visited.
GetAvailableNeighbors(g) ==
    LET current_row == g.cells[g.current].row
        current_col == g.cells[g.current].col
        neighbor_indices == <<CalculateIndex(g, current_row - 1, current_col),
                              CalculateIndex(g, current_row, current_col + 1),
                              CalculateIndex(g, current_row + 1, current_col),
                              CalculateIndex(g, current_row, current_col - 1)>>
        unvisited(n) == IF n = -1 THEN FALSE ELSE ~g.cells[n].visited
    IN  SelectSeq(neighbor_indices, unvisited)

\* Grid::find_next_cell: the cells it may return; none when it returns None.
FindNextCell(g) ==
    {GetAvailableNeighbors(g)[k] : k \in DOMAIN GetAvailableNeighbors(g)}

\* generate_maze, the Some(next) arm.
MazeAdvance(g, next) ==
    LET visited == [g.cells EXCEPT ![next].visited = TRUE]
        lower == Min(g.current, next)
        higher == Max(g.current, next)
        pair == RemoveWalls(visited[lower], visited[higher])
    IN  [g EXCEPT !.cells = [visited EXCEPT ![lower] = pair[1], ![higher] = pair[2]],
                  !.backtrace = Append(g.backtrace, g.current),
                  !.current = next]

\* generate_maze, the None arm with a backtrace that is not empty.
MazeBacktrack(g) ==
    [g EXCEPT !.current = g.backtrace[1], !.backtrace = Tail(g.backtrace)]

\* Grid::copy_to_map
CopyToMap(g, m) ==
    LET idx(c) == XyIdx(m, (g.cells[c].col + 1) * 2, (g.cells[c].row + 1) * 2)
        floors == UNION {{idx(c)}
                         \cup (IF ~g.cells[c].walls[TOP] THEN {idx(c) - m.width} ELSE {})
                         \cup (IF ~g.cells[c].walls[RIGHT] THEN {idx(c) + 1} ELSE {})
                         \cup (IF ~g.cells[c].walls[BOTTOM] THEN {idx(c) + m.width} ELSE {})
                         \cup (IF ~g.cells[c].walls[LEFT] THEN {idx(c) - 1} ELSE {}) :
                         c \in DOMAIN g.cells}
    IN  [m EXCEPT !.tiles = [t \in Indices(m) |-> IF t \in floors THEN Floor ELSE Wall]]

\* MazeBuilder::build up to the call of generate_maze: a map, and a grid of
\* (cx - 2) x (cy - 2) cells for its centre (cx, cy).
InitMaze ==
    /\ ChainIdle
    /\ \E width \in 1..MazeWidth, height \in 1..MazeHeight :
          /\ map = MapNew(2 * (width + 2), 2 * (height + 2))
          /\ locals = GridNew(Center(map).x - 2, Center(map).y - 2)
    /\ start = <<[x |-> 0, y |-> 0]>>
    /\ rooms = << >>
    /\ spawn_list = << >>
    /\ builder = "maze"
    /\ pc = "generate_maze"

\* One turn of the loop of generate_maze.
GenerateMazeStep ==
    /\ builder = "maze"
    /\ pc = "generate_maze"
    /\ \E g \in {[locals EXCEPT !.cells[locals.current].visited = TRUE]} :
          IF FindNextCell(g) # {}
          THEN \E next \in FindNextCell(g) :
                  \E moved \in {MazeAdvance(g, next)} :
                      /\ locals' = [moved EXCEPT !.i = g.i + 1]
                      /\ map' = IF g.i % SnapshotEvery = 0 THEN CopyToMap(moved, map) ELSE map
                      /\ pc' = "generate_maze"
          ELSE IF g.backtrace # << >>
          THEN \E moved \in {MazeBacktrack(g)} :
                  /\ locals' = [moved EXCEPT !.i = g.i + 1]
                  /\ map' = IF g.i % SnapshotEvery = 0 THEN CopyToMap(moved, map) ELSE map
                  /\ pc' = "generate_maze"
          ELSE /\ locals' = g
               /\ map' = map
               /\ pc' = "maze_generated"
    /\ UNCHANGED <<start, rooms, spawn_list, builder>>
    /\ UNCHANGED chain_vars

\* MazeBuilder::build after generate_maze: the start is (2, 2), the map is
\* culled from there and the tile returned becomes DownStairs.
MazeLocateExit ==
    /\ builder = "maze"
    /\ pc = "maze_generated"
    /\ start' = <<[x |-> 2, y |-> 2]>>
    /\ \E r \in {RemoveUnreachableAreasReturningMostDistant(map, XyIdx(map, 2, 2))} :
          map' = PlaceExit(r.map, r.exit_tile)
    /\ pc' = "done"
    /\ UNCHANGED <<rooms, spawn_list, builder, locals>>
    /\ UNCHANGED chain_vars

NextMaze ==
    \/ GenerateMazeStep
    \/ MazeLocateExit

SpecMaze == InitMaze /\ [][NextMaze]_vars

\* generate_maze runs on one thread that keeps taking the turns of its loop.
SpecMazeFair == SpecMaze /\ WF_vars(GenerateMazeStep)

\* The pairs of cells of a grid that share a wall, each with the wall of
\* the first cell and the wall of the second.
SharedWalls(g) ==
    {<<c, c + 1, RIGHT, LEFT>> : c \in {k \in DOMAIN g.cells : g.cells[k].col < g.width - 1}}
    \cup {<<c, c + g.width, BOTTOM, TOP>> :
              c \in {k \in DOMAIN g.cells : g.cells[k].row < g.height - 1}}

\* The cells reached from the cells of `seen` through open walls.
RECURSIVE ThroughOpenWalls(_, _)
ThroughOpenWalls(g, seen) ==
    LET more == {c \in DOMAIN g.cells :
                    \E w \in SharedWalls(g) :
                        \/ w[1] \in seen /\ w[2] = c /\ ~g.cells[w[1]].walls[w[3]]
                        \/ w[2] \in seen /\ w[1] = c /\ ~g.cells[w[2]].walls[w[4]]}
    IN  IF more \subseteq seen THEN seen ELSE ThroughOpenWalls(g, seen \cup more)

\* Every cell is visited, neighbouring cells agree on the wall they share,
\* and the open walls make a spanning tree of the grid.
MazeIsSpanningTree(g) ==
    /\ \A c \in DOMAIN g.cells : g.cells[c].visited
    /\ \A w \in SharedWalls(g) : g.cells[w[1]].walls[w[3]] = g.cells[w[2]].walls[w[4]]
    /\ Cardinality({w \in SharedWalls(g) : ~g.cells[w[1]].walls[w[3]]})
          = (g.width * g.height) - 1
    /\ ThroughOpenWalls(g, {0}) = DOMAIN g.cells

(***************************************************************************)
(* C20: maze generation terminates for every grid size and every sequence  *)
(* of random choices, and when it has terminated every cell is visited,    *)
(* the wall flags of neighbouring cells agree, and the open walls connect  *)
(* all cells as a spanning tree (cells - 1 shared walls removed).          *)
(***************************************************************************)
C20_MazeTerminatesAsSpanningTree ==
    /\ <>(builder = "maze" /\ pc = "maze_generated")
    /\ [](builder = "maze" /\ pc = "maze_generated" => MazeIsSpanningTree(locals))

\* A maze is finished in which some cell has three open walls: the walk
\* went back to a cell and branched off it.
C20_Witness ==
    /\ builder = "maze"
    /\ pc = "maze_generated"
    /\ locals.width > 1
    /\ locals.height > 1
    /\ \E c \in DOMAIN locals.cells :
          Cardinality({w \in 0..3 : ~locals.cells[c].walls[w]}) >= 3

\* The tile of map m that stands for cell c of a grid.
CellTile(g, m, c) == XyIdx(m, (g.cells[c].col + 1) * 2, (g.cells[c].row + 1) * 2)

(***************************************************************************)
(* C21: when maze generation has finished, the map handed to the cull and  *)
(* to exit placement is the rendering of the final grid: the tile of every *)
(* cell is Floor, and so is the tile between two cells whose shared wall   *)
(* was removed, whenever it was removed.                                   *)
(***************************************************************************)
C21_MapRendersFinalGrid ==
    (builder = "maze" /\ pc = "maze_generated") =>
        /\ \A c \in DOMAIN locals.cells : map.tiles[CellTile(locals, map, c)] = Floor
        /\ \A w \in SharedWalls(locals) :
              ~locals.cells[w[1]].walls[w[3]]
                  => map.tiles[CellTile(locals, map, w[1])
                               + (IF w[3] = RIGHT THEN 1 ELSE map.width)] = Floor

\* A maze is finished, the grid was copied to the map more than once, and a
\* wall removed since is not on the map.
C21_Witness ==
    /\ builder = "maze"
    /\ pc = "maze_generated"
    /\ locals.i > SnapshotEvery
    /\ CountFloorTiles(map) > locals.width * locals.height
    /\ \E w \in SharedWalls(locals) :
          /\ ~locals.cells[w[1]].walls[w[3]]
          /\ map.tiles[CellTile(locals, map, w[1])
                        + (IF w[3] = RIGHT THEN 1 ELSE map.width)] = Wall

\* The current cell of the grid has no unvisited neighbour and there are
\* cells to go back to.
MustBacktrack ==
    /\ builder = "maze"
    /\ pc = "generate_maze"
    /\ FindNextCell(locals) = {}
    /\ locals.backtrace # << >>

(***************************************************************************)
(* C22: the backtrack store is a stack.  Cells are pushed at the end of    *)
(* the backtrace, so when the current cell has no unvisited neighbour the  *)
(* next current cell is the last entry of the backtrace, the cell pushed   *)
(* most recently and not yet taken off.                                    *)
(***************************************************************************)
C22_BacktrackIsLastInFirstOut ==
    [][MustBacktrack => locals'.current = locals.backtrace[Len(locals.backtrace)]]_vars

\* The maze has to go back while the oldest and the newest entry of the
\* backtrace are different cells.
C22_Witness ==
    /\ MustBacktrack
    /\ Len(locals.backtrace) >= 2
    /\ locals.backtrace[1] # locals.backtrace[Len(locals.backtrace)]

(***************************************************************************)
(* Prefab overlay: PrefabBuilder in its room-vault and sectional modes.    *)
(* A template is the sequence of the characters of its string.             *)
(***************************************************************************)
NOT_A_TRAP_MAP ==
    <<"\n", "\n", " ", "^", "^", "^", "\n", " ", "^", "!", "^", "\n",
      " ", "^", "^", "^", "\n", "\n">>

SILLY_SMILE_MAP ==
    <<"\n", "\n", " ", "^", " ", " ", "^", "\n", " ", " ", "#", "\n",
      "\n", " ", "#", "#", "#", "\n", "\n">>

CHECKERBOARD_MAP ==
    <<"\n", "\n", " ", "g", "#", "%", "#", "\n", " ", "#", "!", "#",
      "\n", " ", "^", "#", " ", "#", "\n", "\n">>


NOT_A_TRAP ==
    [template |-> NOT_A_TRAP_MAP, width |-> 5, height |-> 5,
     first_depth |-> 0, last_depth |-> 100]

SILLY_SMILE ==
    [template |-> SILLY_SMILE_MAP, width |-> 6, height |-> 6,
     first_depth |-> 0, last_depth |-> 100]

CHECKERBOARD ==
    [template |-> CHECKERBOARD_MAP, width |-> 6, height |-> 6,
     first_depth |-> 0, last_depth |-> 100]

\* apply_room_vaults, master_vault_list
MasterVaultList == <<NOT_A_TRAP, CHECKERBOARD, SILLY_SMILE>>

\* The width to which prefab_sections::pad fills every line.
PadWidth == 15

\* The rows of RIGHT_FORT that a section of SectionHeight rows shows.
SectionHeight == 5

RIGHT_FORT ==
    <<"\n", " ", " ", " ", " ", " ", "#", "\n", " ", " ", "#", "#",
      "#", "#", "#", "#", "#", "\n", " ", " ", "#", " ", " ", " ",
      " ", " ", "#", "\n", " ", " ", "#", " ", " ", " ", " ", " ",
      "#", "#", "#", "#", "#", "#", "#", "\n", " ", " ", "#", " ",
      " ", "g", " ", " ", " ", " ", " ", " ", " ", " ", "#", "\n">>

\* PrefabBuilder::read_ascii_to_vec; no template has a character 160.
ReadAsciiToVec(template) ==
    SelectSeq(template, LAMBDA c : c # "\r" /\ c # "\n")

\* str::split_terminator('\n')
RECURSIVE SplitTerminator(_)
SplitTerminator(template) ==
    IF template = << >>
    THEN << >>
    ELSE LET breaks == {k \in DOMAIN template : template[k] = "\n"}
         IN  IF breaks = {}
             THEN <<template>>
             ELSE LET k == SetMin(breaks)
                  IN  <<SubSeq(template, 1, k - 1)>>
                        \o SplitTerminator(SubSeq(template, k + 1, Len(template)))

\* prefab_sections::pad
RECURSIVE Pad(_)
Pad(lines) ==
    IF lines = << >>
    THEN << >>
    ELSE Head(lines)
           \o [k \in 1..Max(0, PadWidth - Len(Head(lines))) |-> " "]
           \o Pad(Tail(lines))

\* prefab_sections::get_template_str
GetTemplateStr(section) == Pad(SplitTerminator(section.template))

\* PrefabBuilder::char_to_map on build data bd = [map, start, spawn_list]
CharToMap(ch, idx, bd) ==
    LET floor == [bd EXCEPT !.map.tiles[idx] = Floor]
        spawn(name) == [floor EXCEPT !.spawn_list = Append(@, [idx |-> idx, name |-> name])]
    IN  CASE ch = " " -> floor
          [] ch = "#" -> [bd EXCEPT !.map.tiles[idx] = Wall]
          [] ch = "@" -> [floor EXCEPT !.start = <<[x |-> idx % bd.map.width,
                                                    y |-> idx \div bd.map.width]>>]
          [] ch = ">" -> [bd EXCEPT !.map.tiles[idx] = DownStairs]
          [] ch = "g" -> spawn("Goblin")
          [] ch = "o" -> spawn("Orc")
          [] ch = "^" -> spawn("Bear Trap")
          [] ch = "%" -> spawn("Rations")
          [] ch = "!" -> spawn("Health Potion")
          [] OTHER -> bd

\* apply_previous_iteration: the entries the filter keeps. The filter is the
\* closure's verdict on every cell (x, y) of the map.
ApplyPreviousIteration(filter, m, entries) ==
    SelectSeq(entries, LAMBDA ent : filter[ent.idx % m.width, ent.idx \div m.width])

\* apply_room_vaults, the test of one position (x, y): `possible` is assigned
\* for every cell of the footprint in turn, so it ends as the test of the
\* last cell.
VaultPossible(m, vault, used_tiles, x, y) ==
    LET idx == XyIdx(m, (vault.width - 1) + x, (vault.height - 1) + y)
    IN  m.tiles[idx] = Floor /\ idx \notin used_tiles

\* apply_room_vaults, the scan `while i < tiles.len() - 1`: it stops at the
\* first position that passes.
VaultPositions(m, vault, used_tiles) ==
    LET passes(i) ==
            LET x == i % m.width
                y == i \div m.width
            IN  /\ x > 1
                /\ y > 1
                /\ x + vault.width < m.width - 2
                /\ y + vault.height < m.height - 2
                /\ VaultPossible(m, vault, used_tiles, x, y)
        found == {i \in 0..(m.width * m.height - 2) : passes(i)}
    IN  IF found = {}
        THEN << >>
        ELSE <<[x |-> SetMin(found) % m.width, y |-> SetMin(found) \div m.width]>>

\* apply_room_vaults, the spawn_list.retain before a vault is stamped.
RetainAroundVault(m, entries, pos, vault) ==
    SelectSeq(entries, LAMBDA ent :
        LET x == ent.idx % m.width
            y == ent.idx \div m.height
        IN  \/ x < pos.x
            \/ x > pos.x + vault.width
            \/ y < pos.y
            \/ y > pos.y + vault.height)

\* apply_room_vaults, the stamping loops from the glyph counter bd.i on;
\* string_vec[i] panics when i is not an index of string_vec.
\* bd = [map, start, spawn_list, used_tiles, i, panicked].
RECURSIVE StampVault(_, _, _, _)
StampVault(bd, string_vec, vault, pos) ==
    IF bd.i = vault.width * vault.height
    THEN bd
    ELSE IF bd.i >= Len(string_vec)
    THEN [bd EXCEPT !.panicked = TRUE]
    ELSE LET x == bd.i % vault.width
             y == bd.i \div vault.width
             idx == XyIdx(bd.map, x + pos.x, y + pos.y)
             put == CharToMap(string_vec[bd.i + 1], idx, bd)
         IN  StampVault([put EXCEPT !.used_tiles = @ \cup {idx}, !.i = @ + 1],
                        string_vec, vault, pos)

\* apply_sectional, the stamping loops from the glyph counter bd.i on; the
\* loops count y over the rows and x over the columns, and i with them.
\* bd = [map, start, spawn_list, i].
RECURSIVE StampSection(_, _, _, _, _)
StampSection(bd, string_vec, section, chunk_x, chunk_y) ==
    IF bd.i = section.width * section.height
    THEN bd
    ELSE LET x == bd.i % section.width
             y == bd.i \div section.width
             idx == XyIdx(bd.map, x + chunk_x, y + chunk_y)
             put == IF InBounds(bd.map, x, 0, y, 0) /\ bd.i < Len(string_vec)
                    THEN CharToMap(string_vec[bd.i + 1], idx, bd)
                    ELSE bd
         IN  StampSection([put EXCEPT !.i = @ + 1], string_vec, section, chunk_x, chunk_y)

\* apply_sectional, chunk_x and chunk_y
ChunkX(m, section) ==
    CASE section.placement[1] = "Left" -> 0
      [] section.placement[1] = "Center" -> (m.width \div 2) - (section.width \div 2)
      [] section.placement[1] = "Right" -> (m.width - 1) - section.width

ChunkY(m, section) ==
    CASE section.placement[2] = "Top" -> 0
      [] section.placement[2] = "Center" -> (m.height \div 2) - (section.height \div 2)
      [] section.placement[2] = "Bottom" -> (m.height - 1) - section.height

\* Bounds of the maps the overlay stages are run on, and of the depth.
VaultMapWidth == 11
VaultMapHeight == 12
SectionMapWidth == 17
SectionMapHeight == 8
MaxDepth == 2

\* A map whose interior is Floor but for the cells in `walls`.
OpenMap(w, h, walls) ==
    [MapNew(w, h) EXCEPT !.tiles = [i \in 0..(w * h - 1) |->
        IF /\ i % w \in 1..(w - 2)
           /\ i \div w \in 1..(h - 2)
           /\ i \notin walls
        THEN Floor ELSE Wall]]

\* The spawn lists an earlier stage may have left: none, or one entry on a
\* Floor tile.
EarlierSpawns(m) ==
    {<< >>} \cup {<<[idx |-> i, name |-> "Orc"]>> : i \in {t \in Indices(m) : m.tiles[t] = Floor}}

\* The build data a room-vault stage or a sectional stage starts from;
\* locals.earlier keeps the spawn list the stage was given.
InitPrefab ==
    /\ ChainIdle
    /\ \/ /\ builder = "room_vaults"
          /\ pc = "apply_room_vaults"
          /\ \E walls \in {{}} \cup {{i} : i \in Indices(MapNew(VaultMapWidth, VaultMapHeight))} :
                map = OpenMap(VaultMapWidth, VaultMapHeight, walls)
       \/ /\ builder = "sectional"
          /\ pc = "apply_sectional"
          /\ map = OpenMap(SectionMapWidth, SectionMapHeight, {})
    /\ spawn_list \in EarlierSpawns(map)
    /\ IF builder = "room_vaults"
       THEN \E depth \in 1..MaxDepth :
               locals = [depth |-> depth, used_tiles |-> {}, n_vaults |-> 0, done |-> 0,
                         stamped |-> << >>, earlier |-> spawn_list]
       ELSE \E h \in {"Left", "Center", "Right"}, v \in {"Top", "Center", "Bottom"} :
               locals = [section |-> [template |-> RIGHT_FORT, width |-> PadWidth,
                                      height |-> SectionHeight, placement |-> <<h, v>>],
                         stamped |-> << >>, earlier |-> spawn_list]
    /\ start = << >>
    /\ rooms = << >>

\* apply_room_vaults up to the loop over the vaults.
ApplyRoomVaultsBegin ==
    /\ builder = "room_vaults"
    /\ pc = "apply_room_vaults"
    /\ spawn_list' = ApplyPreviousIteration(
                       [x \in 0..(map.width - 1), y \in 0..(map.height - 1) |-> TRUE],
                       map, spawn_list)
    /\ \E roll \in 1..6 :
          LET possible_vaults ==
                  SelectSeq(MasterVaultList, LAMBDA v :
                      locals.depth >= v.first_depth /\ locals.depth <= v.last_depth)
          IN  IF roll + locals.depth < 4 \/ possible_vaults = << >>
              THEN /\ pc' = "done"
                   /\ locals' = locals
              ELSE /\ pc' = "place_vault"
                   /\ \E n \in 1..Len(MasterVaultList) :
                         locals' = [locals EXCEPT !.used_tiles = {},
                                                  !.n_vaults = Min(n, Len(possible_vaults))]
    /\ UNCHANGED <<map, start, rooms, builder>>
    /\ UNCHANGED chain_vars

\* apply_room_vaults, one turn of `for _ in 0..n_vaults`.
ApplyRoomVaultsPlace ==
    /\ builder = "room_vaults"
    /\ pc = "place_vault"
    /\ LET possible_vaults ==
               SelectSeq(MasterVaultList, LAMBDA v :
                   locals.depth >= v.first_depth /\ locals.depth <= v.last_depth)
           after(done) == IF done = locals.n_vaults THEN "done" ELSE "place_vault"
       IN  \E vidx \in IF Len(possible_vaults) = 1 THEN {1} ELSE DOMAIN possible_vaults :
             \E vault \in {possible_vaults[vidx]} :
               \E vault_positions \in {VaultPositions(map, vault, locals.used_tiles)} :
                 IF vault_positions = << >>
                 THEN /\ locals' = [locals EXCEPT !.done = @ + 1]
                      /\ pc' = after(locals.done + 1)
                      /\ UNCHANGED <<map, start, spawn_list>>
                 ELSE \E pos \in {vault_positions[1]} :
                        \E bd \in {StampVault(
                                     [map |-> map, start |-> start,
                                      spawn_list |-> RetainAroundVault(map, spawn_list, pos, vault),
                                      used_tiles |-> locals.used_tiles, i |-> 0, panicked |-> FALSE],
                                     ReadAsciiToVec(vault.template), vault, pos)} :
                          /\ map' = bd.map
                          /\ start' = bd.start
                          /\ spawn_list' = bd.spawn_list
                          /\ locals' = [locals EXCEPT
                                          !.used_tiles = bd.used_tiles,
                                          !.done = @ + 1,
                                          !.stamped = Append(@, [pos |-> pos, width |-> vault.width,
                                                                 height |-> vault.height])]
                          /\ pc' = IF bd.panicked THEN "panicked" ELSE after(locals.done + 1)
    /\ UNCHANGED <<rooms, builder>>
    /\ UNCHANGED chain_vars

\* apply_sectional
ApplySectional ==
    /\ builder = "sectional"
    /\ pc = "apply_sectional"
    /\ LET section == locals.section
           chunk_x == ChunkX(map, section)
           chunk_y == ChunkY(map, section)
           kept == ApplyPreviousIteration(
                       [x \in 0..(map.width - 1), y \in 0..(map.height - 1) |->
                           \/ x < chunk_x
                           \/ x > chunk_x + section.width
                           \/ y < chunk_y
                           \/ y > chunk_y + section.height],
                       map, spawn_list)
       IN  \E bd \in {StampSection([map |-> map, start |-> start, spawn_list |-> kept,
                                    i |-> 0],
                                   ReadAsciiToVec(GetTemplateStr(section)),
                                   section, chunk_x, chunk_y)} :
             /\ map' = bd.map
             /\ start' = bd.start
             /\ spawn_list' = bd.spawn_list
             /\ locals' = [locals EXCEPT
                             !.stamped = Append(@, [pos |-> [x |-> chunk_x, y |-> chunk_y],
                                                    width |-> section.width,
                                                    height |-> section.height])]
    /\ pc' = "done"
    /\ UNCHANGED <<rooms, builder>>
    /\ UNCHANGED chain_vars

NextPrefab ==
    \/ ApplyRoomVaultsBegin
    \/ ApplyRoomVaultsPlace
    \/ ApplySectional

SpecPrefab == InitPrefab /\ [][NextPrefab]_vars

\* The tiles of the rectangle `stamp` = [pos, width, height] on map m.
Footprint(m, stamp) ==
    {XyIdx(m, x, y) : x \in stamp.pos.x..(stamp.pos.x + stamp.width - 1),
                      y \in stamp.pos.y..(stamp.pos.y + stamp.height - 1)}

\* A step of the room-vault stage that stamps a vault.
StampsVault ==
    /\ builder = "room_vaults"
    /\ pc = "place_vault"
    /\ Len(locals'.stamped) > Len(locals.stamped)

(***************************************************************************)
(* C23: in room-vault mode a vault is stamped at a position only if every  *)
(* cell of its width x height footprint there is Floor and none of them    *)
(* was claimed by a vault stamped earlier in the run; so the footprints of *)
(* the vaults of one run are disjoint.                                     *)
(***************************************************************************)
C23_VaultOnFreeFloorOnly ==
    [][StampsVault =>
          LET stamp == locals'.stamped[Len(locals'.stamped)]
          IN  /\ \A t \in Footprint(map, stamp) :
                    map.tiles[t] = Floor /\ t \notin locals.used_tiles
              /\ \A k \in DOMAIN locals.stamped :
                    Footprint(map, locals.stamped[k]) \cap Footprint(map, stamp) = {}]_vars

\* A vault has been stamped on a map that had a Wall among its Floor tiles.
C23_Witness ==
    /\ builder = "room_vaults"
    /\ locals.stamped # << >>
    /\ \E t \in Footprint(map, locals.stamped[1]) :
          t \notin locals.used_tiles /\ map.tiles[t] = Wall

\* The entries of a spawn list that lie in a rectangle, and those that do not.
InsideStamp(m, stamp, entries) ==
    SelectSeq(entries, LAMBDA ent : ent.idx \in Footprint(m, stamp))

OutsideStamp(m, stamp, entries) ==
    SelectSeq(entries, LAMBDA ent : ent.idx \notin Footprint(m, stamp))

\* A step of an overlay stage that stamps a template.
StampsTemplate ==
    /\ builder \in {"room_vaults", "sectional"}
    /\ Len(locals'.stamped) > Len(locals.stamped)

(***************************************************************************)
(* C24: when an overlay stage (sectional or room vault) stamps a template, *)
(* no spawn entry from before has its tile inside the stamped rectangle    *)
(* afterwards, and the earlier entries outside the rectangle are all kept, *)
(* unchanged and in their order, at the head of the spawn list.            *)
(***************************************************************************)
C24_SpawnsClearedInsideKeptOutside ==
    [][StampsTemplate =>
          LET stamp == locals'.stamped[Len(locals'.stamped)]
              kept == OutsideStamp(map, stamp, spawn_list)
          IN  /\ \A k \in DOMAIN spawn_list :
                    spawn_list[k].idx \in Footprint(map, stamp)
                        => \A j \in DOMAIN spawn_list' : spawn_list'[j] # spawn_list[k]
              /\ Len(spawn_list') >= Len(kept)
              /\ SubSeq(spawn_list', 1, Len(kept)) = kept]_vars

\* A template has been stamped by a stage that started with a spawn entry
\* on a tile just beyond the stamped rectangle, and the entry is gone.
C24_Witness ==
    /\ builder \in {"room_vaults", "sectional"}
    /\ locals.stamped # << >>
    /\ \E k \in DOMAIN locals.earlier :
          /\ locals.earlier[k].idx \notin Footprint(map, locals.stamped[1])
          /\ \/ locals.earlier[k].idx - 1 \in Footprint(map, locals.stamped[1])
             \/ locals.earlier[k].idx - map.width \in Footprint(map, locals.stamped[1])
          /\ \A j \in DOMAIN spawn_list : spawn_list[j] # locals.earlier[k]

(***************************************************************************)
(* C25: stamping a vault of the master list never aborts: the template     *)
(* without its line breaks has a glyph for every cell of the width x       *)
(* height footprint, so the stamping loop reads no glyph beyond its end    *)
(* and the stage completes.                                                *)
(***************************************************************************)
C25_StampingNeverAborts ==
    /\ \A k \in DOMAIN MasterVaultList :
          MasterVaultList[k].width * MasterVaultList[k].height
              <= Len(ReadAsciiToVec(MasterVaultList[k].template))
    /\ builder = "room_vaults" => pc # "panicked"

\* The stage has aborted while stamping a vault: some tiles of the footprint
\* are claimed and the rest are not.
C25_Witness ==
    /\ builder = "room_vaults"
    /\ pc = "panicked"
    /\ locals.stamped # << >>
    /\ locals.used_tiles # {}
    /\ Footprint(map, locals.stamped[1]) \ locals.used_tiles # {}

(***************************************************************************)
(* Culling a map with one long winding corridor, as a maze has them.       *)
(***************************************************************************)
\* The widest map and the most corridor rows.
WindingWidth == 23
WindingRows == 10

\* A map of `width` columns with `rows` corridors along its odd rows, joined
\* at alternate ends through the even rows between them.
WindingMap(width, rows) ==
    [MapNew(width, 2 * rows + 1) EXCEPT !.tiles =
        [i \in 0..(width * (2 * rows + 1) - 1) |->
            LET x == i % width
                y == i \div width
            IN  IF /\ x \in 1..(width - 2)
                   /\ y \in 1..(2 * rows - 1)
                   /\ \/ y % 2 = 1
                      \/ x = (IF (y \div 2) % 2 = 1 THEN width - 2 ELSE 1)
                THEN Floor ELSE Wall]]

InitWinding ==
    /\ ChainIdle
    /\ \E width \in 5..WindingWidth, corridors \in 1..WindingRows :
          map = WindingMap(width, corridors)
    /\ start = <<[x |-> 1, y |-> 1]>>
    /\ rooms = << >>
    /\ spawn_list = << >>
    /\ builder = "cull"
    /\ pc = "cull"
    /\ locals = [exit_tile |-> None]

SpecWinding == InitWinding /\ [][NextCull]_vars

\* The tiles joined to the tiles of `seen` by a path over passable tiles,
\* each step one that get_available_exits allows.
Joined(m, seen) ==
    seen \cup {e[3] : e \in UNION {GetAvailableExits(m, j) : j \in seen}}

RECURSIVE Connected(_, _)
Connected(m, seen) ==
    LET more == Joined(m, Joined(m, Joined(m, Joined(m, Joined(m, Joined(m,
                    Joined(m, Joined(m, seen))))))))
    IN  IF more = seen THEN seen ELSE Connected(m, more)

WallsAround(m, i, around) ==
    Cardinality({d \in around :
                    m.tiles[XyIdx(m, IdxX(m, i) + d[1], IdxY(m, i) + d[2])] = Wall})

AxisAdjacent == {<<-1, 0>>, <<1, 0>>, <<0, -1>>, <<0, 1>>}

Surrounding == AxisAdjacent \cup {<<-1, -1>>, <<1, -1>>, <<-1, 1>>, <<1, 1>>}

\* A step that is a pass of the cellular automaton, each cell of the new grid
\* being what the rule makes of its Wall neighbours at the offsets `around` in the old grid.
CaPassFollows(around) ==
    (builder = "cellular_automata" /\ pc = "passes") =>
        /\ locals.pass < CaPasses
        /\ \A i \in Indices(map) :
              IF i \in Interior(map)
              THEN map'.tiles[i] =
                      IF WallsAround(map, i, around) = 0 \/ WallsAround(map, i, around) > 4
                      THEN Wall ELSE Floor
              ELSE map'.tiles[i] = map.tiles[i]

(***************************************************************************)
(* C27 as stated: each of the 15 passes is a synchronous update in which   *)
(* every interior cell becomes Wall if, in the grid before the pass, the   *)
(* number of Wall cells among its 4 axis-adjacent neighbours is 0 or more  *)
(* than 4, and Floor otherwise; border cells are never rewritten.          *)
(***************************************************************************)
C27_PassCountsAxisNeighbours == [][CaPassFollows(AxisAdjacent)]_vars

(***************************************************************************)
(* C27, amended: each of the 15 passes is a synchronous update in which    *)
(* every interior cell becomes Wall if, in the grid before the pass, the   *)
(* number of Wall cells among its 8 surrounding cells (axis-adjacent and   *)
(* diagonal) is 0 or more than 4, and Floor otherwise; border cells are    *)
(* never rewritten.                                                        *)
(***************************************************************************)
C27_PassCountsSurroundingCells == [][CaPassFollows(Surrounding)]_vars

\* A pass has been made of a grid with an interior cell that had more than 4
\* Wall cells around it and is Wall, and one that had from 1 to 4 and is
\* Floor although none of them was beside, above or below it.
C27_Witness ==
    /\ builder = "cellular_automata"
    /\ pc = "passes"
    /\ locals.pass >= 1
    /\ \E i, j \in Interior(map) :
          /\ map.tiles[i] = Wall
          /\ map.tiles[j] = Floor
          /\ WallsAround(map, j, AxisAdjacent) = 0
          /\ WallsAround(map, j, Surrounding) > 0

\* A position that is no border cell of map m.
InteriorCell(m, x, y) ==
    /\ 1 <= x /\ x <= m.width - 2
    /\ 1 <= y /\ y <= m.height - 2

\* The digger is about to take a tick of stagger.
DiggerTicks ==
    /\ builder = "drunkard"
    /\ pc = "stagger"
    /\ locals.drunk.lifespan > 0

(***************************************************************************)
(* C28: a digger on an interior cell is on an interior cell after a tick   *)
(* of stagger (1 <= x <= width - 2 and 1 <= y <= height - 2); the tick     *)
(* moves it one cell in one of the four cardinal directions, except that   *)
(* it stays where it is when that cell is not an interior cell.            *)
(***************************************************************************)
C28_DiggerStepsWithinInterior ==
    [][(DiggerTicks /\ InteriorCell(map, locals.drunk.x, locals.drunk.y)) =>
          /\ InteriorCell(map, locals'.drunk.x, locals'.drunk.y)
          /\ \E d \in {<<-1, 0>>, <<1, 0>>, <<0, -1>>, <<0, 1>>} :
                IF InteriorCell(map, locals.drunk.x + d[1], locals.drunk.y + d[2])
                THEN /\ locals'.drunk.x = locals.drunk.x + d[1]
                     /\ locals'.drunk.y = locals.drunk.y + d[2]
                ELSE /\ locals'.drunk.x = locals.drunk.x
                     /\ locals'.drunk.y = locals.drunk.y]_vars

\* A digger in column 2 or row 2 that has ticked before: the cell beside it
\* in column 1 or row 1 is an interior cell.
C28_Witness ==
    /\ DiggerTicks
    /\ locals.drunk.lifespan < DrunkLifespan
    /\ InteriorCell(map, locals.drunk.x, locals.drunk.y)
    /\ locals.drunk.x = 2 \/ locals.drunk.y = 2

(***************************************************************************)
(* Painting with a one-cell brush under every symmetry mode.               *)
(***************************************************************************)
\* The largest map painted on, and the strokes made on one map.
PaintWidth == 6
PaintHeight == 7
PaintStrokes == 2

\* A blank map and a symmetry mode, as DLABuilder::new draws one.
InitPaint ==
    /\ ChainIdle
    /\ \E w \in (PaintWidth - 1)..PaintWidth, h \in (PaintHeight - 1)..PaintHeight :
          map = MapNew(w, h)
    /\ \E mode \in {"None", "Horizontal", "Vertical", "Both"} :
          locals = [symmetry |-> mode, strokes |-> 0, x |-> 0, y |-> 0]
    /\ start = << >>
    /\ rooms = << >>
    /\ spawn_list = << >>
    /\ builder = "paint"
    /\ pc = "paint"

\* paint(map, symmetry, 1, x, y) on an interior cell (x, y).
PaintCell ==
    /\ builder = "paint"
    /\ pc = "paint"
    /\ locals.strokes < PaintStrokes
    /\ \E i \in Interior(map) :
          /\ map' = Paint(map, locals.symmetry, 1, IdxX(map, i), IdxY(map, i))
          /\ locals' = [locals EXCEPT !.strokes = @ + 1,
                                      !.x = IdxX(map, i), !.y = IdxY(map, i)]
    /\ UNCHANGED <<start, rooms, spawn_list, builder, pc>>
    /\ UNCHANGED chain_vars

NextPaint == PaintCell

SpecPaint == InitPaint /\ [][NextPaint]_vars

\* The cell (x, y) and its reflections about the centre of map m that the
\* symmetry mode calls for.
Reflections(m, mode, x, y) ==
    {XyIdx(m, x, y)}
      \cup (IF mode \in {"Horizontal", "Both"}
            THEN {XyIdx(m, 2 * Center(m).x - x, y)} ELSE {})
      \cup (IF mode \in {"Vertical", "Both"}
            THEN {XyIdx(m, x, 2 * Center(m).y - y)} ELSE {})

(***************************************************************************)
(* C29: painting an interior cell (x, y) with a one-cell brush makes Floor *)
(* the cell and, about the map centre (cx, cy), its reflection             *)
(* (2*cx - x, y) under horizontal symmetry, (x, 2*cy - y) under vertical   *)
(* symmetry, and both of these under both symmetries; under no symmetry    *)
(* the cell alone.  No other cell changes.                                 *)
(***************************************************************************)
C29_PaintMirrorsAboutCentre ==
    [][(builder = "paint" /\ pc = "paint") =>
          \A i \in Indices(map) :
              map'.tiles[i] = IF i \in Reflections(map, locals.symmetry, locals'.x, locals'.y)
                              THEN Floor ELSE map.tiles[i]]_vars

\* A cell below the centre row has been painted under vertical symmetry on
\* a map that was blank.
C29_Witness ==
    /\ builder = "paint"
    /\ locals.strokes = 1
    /\ locals.symmetry = "Vertical"
    /\ locals.y > Center(map).y
    /\ map.tiles[XyIdx(map, locals.x, locals.y)] = Floor

\* Mirror images of a pattern of size x size tiles kept row by row: every
\* row reversed, the rows in reverse order, and both.
MirrorRows(pattern, size) ==
    [i \in DOMAIN pattern |->
        pattern[((i - 1) \div size) * size + (size - 1 - ((i - 1) % size)) + 1]]

MirrorRowOrder(pattern, size) ==
    [i \in DOMAIN pattern |->
        pattern[(size - 1 - ((i - 1) \div size)) * size + ((i - 1) % size) + 1]]

MirrorBoth(pattern, size) == MirrorRowOrder(MirrorRows(pattern, size), size)

\* The chunks build_patterns cuts map m into.
SourceChunks(m, chunk_size) ==
    {ChunkNew(chunk_size, cx, cy) : cx \in 0..((m.width \div chunk_size) - 1),
                                    cy \in 0..((m.height \div chunk_size) - 1)}

\* The patterns of a catalog.
CatalogPatterns(constraints) == {constraints[k].pattern : k \in DOMAIN constraints}

(***************************************************************************)
(* C30: for every chunk of the source level, wherever it lies in the chunk *)
(* grid, the flipped copies that build_patterns adds to the catalog are    *)
(* the mirror images of the chunk's own pattern: the horizontal flip is    *)
(* the pattern with every row reversed, the vertical flip the pattern with *)
(* its rows in reverse order, the 180-degree flip both; mirroring a flip   *)
(* again the same way gives the pattern back, and the three mirror images  *)
(* are in the catalog.                                                     *)
(***************************************************************************)
C30_FlipsMirrorOwnChunk ==
    [][(builder = "wfc" /\ pc = "build_patterns") =>
          \A c \in SourceChunks(map, locals.chunk_size) :
              LET own == AddTiles(map, c)
                  size == locals.chunk_size
              IN  /\ FlipHorizontal(map, c) = MirrorRows(own, size)
                  /\ FlipVertical(map, c) = MirrorRowOrder(own, size)
                  /\ FlipBoth(map, c) = MirrorBoth(own, size)
                  /\ MirrorRows(FlipHorizontal(map, c), size) = own
                  /\ MirrorRowOrder(FlipVertical(map, c), size) = own
                  /\ MirrorBoth(FlipBoth(map, c), size) = own
                  /\ {MirrorRows(own, size), MirrorRowOrder(own, size), MirrorBoth(own, size)}
                        \subseteq CatalogPatterns(locals'.constraints)]_vars

\* A catalog built from a source level of more than one row of chunks holds
\* a pattern without its mirror image.
C30_Witness ==
    /\ builder = "wfc"
    /\ pc = "new_solver"
    /\ map.height \div locals.chunk_size > 1
    /\ \E k \in DOMAIN locals.constraints :
          MirrorRowOrder(locals.constraints[k].pattern, locals.chunk_size)
              \notin CatalogPatterns(locals.constraints)

====
